---- MODULE Spec2Model ----
(***************************************************************************)
(* Model of the network-monitoring registry (tests/utils/ApiMonitor.ts)    *)
(* and of the bridge-operation pipeline (tests/pages/AppPage.ts,           *)
(* tests/utils/ApiResponseHandler.ts).                                      *)
(*                                                                         *)
(* Strings are modelled as sequences of characters so that substring       *)
(* containment is computed, not assumed.  Promise controllers are objects  *)
(* with identity: `controllers` is the heap, `monitorPromises` maps an id  *)
(* to the index of its current controller.  Timers and Playwright          *)
(* waitForResponse listeners close over the monitor id, as in the source.  *)
(***************************************************************************)
EXTENDS Integers, Sequences, FiniteSets, TLC

VARIABLES
    monitorPromises,    \* Map<id, PromiseController>  (id -> index into controllers)
    monitorStartTimes,  \* Map<id, number>
    monitorPaths,       \* Map<id, string>
    monitorOptions,     \* Map<id, MonitorOptions>
    monitorMethods,     \* Map<id, string>
    capturedResponses,  \* Map<id | 'all', Array<entry>>
    controllers,        \* heap of PromiseController objects
    timers,             \* armed registration timers (setTimeout of startMonitoring*)
    listeners,          \* page.waitForResponse listeners (registration one-shot and wait-owned)
    handlers,           \* global response handlers suspended at `await response.json()`
    waits,              \* in-progress / finished waitForResponse calls
    regCount,           \* number of startMonitoring* calls made
    evCount,            \* number of response events emitted by the page
    waitCount,          \* number of waitForResponse calls made
    pageClosed,         \* the page emitted 'close'
    pipe                \* state of one performBridgeOperation invocation

regVars == <<monitorPromises, monitorStartTimes, monitorPaths, monitorOptions,
             monitorMethods, capturedResponses, controllers, timers, listeners>>
vars == <<monitorPromises, monitorStartTimes, monitorPaths, monitorOptions,
          monitorMethods, capturedResponses, controllers, timers, listeners,
          handlers, waits, regCount, evCount, waitCount, pageClosed, pipe>>

----------------------------------------------------------------------------
(* Bounds *)

\* how many calls of startMonitoring* and waitForResponse the clients make and
\* how many responses the page emits, together
MaxCalls == 3

\* longest string the matching rule is evaluated on, over a two-letter alphabet
MaxLen == 2

Ids == {"a", "b"}
Waiters == 1..MaxCalls
Calls == regCount + evCount + waitCount

----------------------------------------------------------------------------
(* Strings as character sequences *)

S_route == <<"r">>
S_msgs == <<"m">>
S_simulate == <<"S">>
U_route == <<"h", "r">>
U_msgs == <<"h", "m">>
U_other == <<"h", "o">>
U_rpc == <<"h">>
P_simulate == <<"c", "S">>
Empty == <<>>

\* String.prototype.includes
Includes(t, r) ==
    \E i \in 0..(Len(t) - Len(r)) : SubSeq(t, i + 1, i + Len(r)) = r

pathMatches_noEmptyCheck(targetPath, monitorPath, options) ==
    IF options.partialMatch THEN Includes(targetPath, monitorPath)
    ELSE targetPath = monitorPath

pathMatches(targetPath, monitorPath, options) ==
    IF targetPath = Empty \/ monitorPath = Empty THEN FALSE
    ELSE IF options.partialMatch THEN Includes(targetPath, monitorPath)
    ELSE targetPath = monitorPath

----------------------------------------------------------------------------
(* Values *)

NoReq == [json |-> FALSE, rpcMethod |-> "", path |-> Empty, id |-> 0]
NoBody == [kind |-> "none", hasId |-> FALSE, id |-> 0, payload |-> "none"]
NoResp == [seq |-> 0, url |-> Empty, status |-> 0, method |-> "", req |-> NoReq, body |-> NoBody]
NoErr == [cause |-> "none", isTimeout |-> FALSE, msgWord |-> FALSE]
NoValue == [tag |-> "none", resp |-> NoResp, err |-> NoErr]

RespValue(r) == [tag |-> "resp", resp |-> r, err |-> NoErr]
ErrValue(e) == [tag |-> "err", resp |-> NoResp, err |-> e]

\* new Error(`Monitor timed out (...)`) with isTimeout = true
RegTimeoutError == [cause |-> "regTimer", isTimeout |-> TRUE, msgWord |-> TRUE]
\* new Error(`Waiting for response timed out (...)`) with isTimeout = true
WaitTimeoutError == [cause |-> "waitTimer", isTimeout |-> TRUE, msgWord |-> TRUE]
\* rejection of page.waitForResponse because the page closed
ClosedError == [cause |-> "closed", isTimeout |-> FALSE, msgWord |-> FALSE]
\* rejection of page.waitForResponse by its own timeout; whether the library's
\* message contains 'timeout' / 'timed out' is not fixed by this repository
LsnTimeoutError(w) == [cause |-> "lsnTimeout", isTimeout |-> FALSE, msgWord |-> w]

----------------------------------------------------------------------------
(* Maps *)

EmptyMap == << >>
Put(f, k, v) == [x \in (DOMAIN f) \cup {k} |-> IF x = k THEN v ELSE f[x]]
Del(f, k) == [x \in (DOMAIN f) \ {k} |-> f[x]]
Has(f, k) == k \in DOMAIN f

\* the registry as one value, so that operations are functions on it
Reg ==
    [monitorPromises |-> monitorPromises, monitorStartTimes |-> monitorStartTimes,
     monitorPaths |-> monitorPaths, monitorOptions |-> monitorOptions,
     monitorMethods |-> monitorMethods, capturedResponses |-> capturedResponses,
     controllers |-> controllers, timers |-> timers, listeners |-> listeners]

SetReg(R) ==
    /\ monitorPromises' = R.monitorPromises
    /\ monitorStartTimes' = R.monitorStartTimes
    /\ monitorPaths' = R.monitorPaths
    /\ monitorOptions' = R.monitorOptions
    /\ monitorMethods' = R.monitorMethods
    /\ capturedResponses' = R.capturedResponses
    /\ controllers' = R.controllers
    /\ timers' = R.timers
    /\ listeners' = R.listeners

\* Date.now(): a logical clock that advances with every registration and event
Now == regCount + evCount + 1

----------------------------------------------------------------------------
(* Promise controllers *)

createPromiseController ==
    [isResolved |-> FALSE, isRejected |-> FALSE, hasTimer |-> FALSE,
     settles |-> 0, value |-> NoValue]

\* controller.resolve(v) / controller.reject(e): a native promise keeps the
\* first settlement; `settles` counts the calls the code makes
Settle(c, v) ==
    [c EXCEPT !.settles = @ + 1, !.value = IF @.tag = "none" THEN v ELSE @]

Pending(c) == ~c.isResolved /\ ~c.isRejected

\* `if (controller && !controller.isResolved && !controller.isRejected)
\*     { controller.isResolved = true; controller.resolve(response); }`
ResolveIfPending(c, r) ==
    IF Pending(c) THEN [Settle(c, RespValue(r)) EXCEPT !.isResolved = TRUE] ELSE c

RejectIfPending_unguarded(c, e) ==
    [Settle(c, ErrValue(e)) EXCEPT !.isRejected = TRUE]

RejectIfPending(c, e) ==
    IF Pending(c) THEN [Settle(c, ErrValue(e)) EXCEPT !.isRejected = TRUE] ELSE c

----------------------------------------------------------------------------
(* Monitor options *)

DefaultOptions ==
    [oneTime |-> FALSE, timeout |-> 30000, silentTimeout |-> FALSE, partialMatch |-> FALSE]
\* `this.monitorOptions.get(monitorId) || {}`
NoOptions ==
    [oneTime |-> FALSE, timeout |-> 0, silentTimeout |-> FALSE, partialMatch |-> FALSE]
OptionsOf(R, id) == IF Has(R.monitorOptions, id) THEN R.monitorOptions[id] ELSE NoOptions

\* a page.waitForResponse listener; `owner` says whether a registration or a
\* wait armed it
Listener(owner, id, kind, path, method, options) ==
    [owner |-> owner, id |-> id, kind |-> kind, path |-> path, method |-> method,
     partialMatch |-> options.partialMatch, timeout |-> options.timeout,
     state |-> "armed", out |-> NoValue]

\* the part every startMonitoring* shares: start time, options, empty private
\* logs, a fresh controller and (if options.timeout) the registration timer
RegisterCommon_noTimer(R, monitorId, options, hasListener, now) ==
    LET c == Len(R.controllers) + 1
    IN [R EXCEPT
          !.monitorStartTimes = Put(@, monitorId, now),
          !.monitorOptions = Put(@, monitorId, options),
          !.capturedResponses = Put(@, monitorId, <<>>),
          !.controllers = Append(@, createPromiseController),
          !.monitorPromises = Put(@, monitorId, c)]

RegisterCommon(R, monitorId, options, hasListener, now) ==
    LET c == Len(R.controllers) + 1
        armed == options.timeout # 0
    IN [R EXCEPT
          !.monitorStartTimes = Put(@, monitorId, now),
          !.monitorOptions = Put(@, monitorId, options),
          !.capturedResponses = Put(@, monitorId, <<>>),
          !.controllers = Append(@, [createPromiseController EXCEPT !.hasTimer = armed]),
          !.monitorPromises = Put(@, monitorId, c),
          !.timers = IF armed
                     THEN @ \cup {[id |-> monitorId, ctrl |-> c,
                                   lsn |-> IF options.oneTime /\ hasListener
                                           THEN Len(R.listeners) + 1 ELSE 0]}
                     ELSE @]

startMonitoringAll(R, monitorId, options, now) ==
    RegisterCommon(R, monitorId, options, FALSE, now)

startMonitoringSpecificPath(R, path, method, monitorId, options, now) ==
    LET R1 == RegisterCommon([R EXCEPT !.monitorPaths = Put(@, monitorId, path)],
                             monitorId, options, TRUE, now)
    IN IF options.oneTime
       THEN [R1 EXCEPT !.listeners =
                Append(@, Listener("reg", monitorId, "path", path, method, options))]
       ELSE R1

startMonitoringRpcMethod(R, methodName, paramPath, monitorId, options, now) ==
    LET R1 == RegisterCommon([R EXCEPT !.monitorPaths = Put(@, monitorId, paramPath),
                                       !.monitorMethods = Put(@, monitorId, methodName)],
                             monitorId, options, TRUE, now)
    IN IF options.oneTime
       THEN [R1 EXCEPT !.listeners =
                Append(@, Listener("reg", monitorId, "rpc", paramPath, methodName, options))]
       ELSE R1

startMonitoringBroadcastRPC(R, methodName, monitorId, options, now) ==
    LET R1 == RegisterCommon([R EXCEPT !.monitorPaths = Put(@, monitorId, Empty),
                                       !.monitorMethods = Put(@, monitorId, methodName)],
                             monitorId, options, TRUE, now)
    IN IF options.oneTime
       THEN [R1 EXCEPT !.listeners =
                Append(@, Listener("reg", monitorId, "broadcast", Empty, methodName, options))]
       ELSE R1

----------------------------------------------------------------------------
(* Cleanup and cancellation *)

cleanupMonitor_rejects(R, monitorId) ==
    LET has == Has(R.monitorPromises, monitorId)
        c == IF has THEN R.monitorPromises[monitorId] ELSE 0
    IN [R EXCEPT
          !.controllers = IF has THEN [@ EXCEPT ![c] = RejectIfPending(@, ClosedError)] ELSE @,
          !.timers = IF has /\ R.controllers[c].hasTimer
                     THEN {t \in @ : t.ctrl # c} ELSE @,
          !.monitorPromises = Del(@, monitorId),
          !.monitorStartTimes = Del(@, monitorId),
          !.monitorPaths = Del(@, monitorId),
          !.monitorOptions = Del(@, monitorId),
          !.monitorMethods = Del(@, monitorId)]

cleanupMonitor_keepsPath(R, monitorId) ==
    LET has == Has(R.monitorPromises, monitorId)
        c == IF has THEN R.monitorPromises[monitorId] ELSE 0
    IN [R EXCEPT
          !.timers = IF has /\ R.controllers[c].hasTimer
                     THEN {t \in @ : t.ctrl # c} ELSE @,
          !.monitorPromises = Del(@, monitorId),
          !.monitorStartTimes = Del(@, monitorId),
          !.monitorOptions = Del(@, monitorId),
          !.monitorMethods = Del(@, monitorId)]

cleanupMonitor(R, monitorId) ==
    LET has == Has(R.monitorPromises, monitorId)
        c == IF has THEN R.monitorPromises[monitorId] ELSE 0
    IN [R EXCEPT
          !.timers = IF has /\ R.controllers[c].hasTimer
                     THEN {t \in @ : t.ctrl # c} ELSE @,
          !.monitorPromises = Del(@, monitorId),
          !.monitorStartTimes = Del(@, monitorId),
          !.monitorPaths = Del(@, monitorId),
          !.monitorOptions = Del(@, monitorId),
          !.monitorMethods = Del(@, monitorId)]

cancelMonitor(R, monitorId) ==
    IF Has(R.monitorPromises, monitorId) THEN cleanupMonitor(R, monitorId) ELSE R

RECURSIVE CleanupEach(_, _)
CleanupEach(R, ids) ==
    IF ids = {} THEN R
    ELSE LET id == CHOOSE x \in ids : TRUE
         IN CleanupEach(cleanupMonitor(R, id), ids \ {id})

cancelAllMonitors_one(R) ==
    IF DOMAIN R.monitorPromises = {} THEN R
    ELSE cleanupMonitor(R, CHOOSE x \in DOMAIN R.monitorPromises : TRUE)

cancelAllMonitors(R) == CleanupEach(R, DOMAIN R.monitorPromises)

getActiveMonitorIds(R) == DOMAIN R.monitorPromises
getActiveMonitorsCount(R) == Cardinality(DOMAIN R.monitorPromises)

----------------------------------------------------------------------------
(* Traffic: the global response listener and the waitForResponse predicates *)

LogEntry(r) == [seq |-> r.seq, url |-> r.url, status |-> r.status]

\* `capturedResponses.get(id) || []` followed by push and set
PushResponse(log, id, r) ==
    Put(log, id, Append(IF Has(log, id) THEN log[id] ELSE <<>>, LogEntry(r)))

\* responseBody is truthy and is an object with an `id` field
isRpcResponse(r) == r.body.kind = "json" /\ r.body.hasId

\* the RPC test of the global listener for one monitor (lines 256-268)
GlobalRpcMatch(R, id, r) ==
    LET options == OptionsOf(R, id)
        methodMatches == Has(R.monitorMethods, id) /\ r.req.rpcMethod = R.monitorMethods[id]
        pathOk == /\ R.monitorPaths[id] # Empty
                  /\ r.req.path # Empty
                  /\ pathMatches(r.req.path, R.monitorPaths[id], options)
        idMatches == r.body.id = r.req.id
    IN methodMatches /\ pathOk /\ idMatches

\* the URL test of the global listener for one monitor (lines 303-306, 341-344)
GlobalUrlMatch(R, id, r) ==
    pathMatches(r.url, R.monitorPaths[id], OptionsOf(R, id))

\* which monitors the global listener matches this response to
GlobalMatches(R, r) ==
    IF r.method = "POST"
    THEN IF r.body.kind = "none" THEN {}
         ELSE IF isRpcResponse(r) /\ r.req.json
              THEN {id \in DOMAIN R.monitorPaths : GlobalRpcMatch(R, id, r)}
              ELSE {id \in DOMAIN R.monitorPaths : GlobalUrlMatch(R, id, r)}
    ELSE {id \in DOMAIN R.monitorPaths : GlobalUrlMatch(R, id, r)}

RECURSIVE PushEach(_, _, _)
PushEach(log, ids, r) ==
    IF ids = {} THEN log
    ELSE LET id == CHOOSE x \in ids : TRUE
         IN PushEach(PushResponse(log, id, r), ids \ {id}, r)

\* the matching loop: append to each matching monitor's private log and
\* resolve it if it is one-time and still pending
GlobalDispatch(R, r) ==
    LET m == GlobalMatches(R, r)
        toResolve == {R.monitorPromises[id] :
                        id \in {x \in m : OptionsOf(R, x).oneTime /\ Has(R.monitorPromises, x)}}
    IN [R EXCEPT
          !.capturedResponses = PushEach(@, m, r),
          !.controllers = [c \in DOMAIN @ |->
                              IF c \in toResolve THEN ResolveIfPending(@[c], r) ELSE @[c]]]

\* the RPC predicate shared by the one-shot listeners and the wait predicate
RpcPredicate(methodName, paramPath, partialMatch, needPath, r) ==
    /\ r.method = "POST"
    /\ r.req.json
    /\ r.req.rpcMethod = methodName
    /\ needPath => /\ r.req.path # Empty
                   /\ pathMatches(r.req.path, paramPath, [partialMatch |-> partialMatch])
    /\ r.body.kind = "json"
    /\ r.body.hasId
    /\ r.body.id = r.req.id

\* the predicate handed to page.waitForResponse, by the place that armed it
ListenerPredicate(l, r) ==
    CASE l.kind = "path" ->
            /\ pathMatches(r.url, l.path, [partialMatch |-> l.partialMatch])
            /\ (l.method = "" \/ r.method = l.method)
      [] l.kind = "rpc" -> RpcPredicate(l.method, l.path, l.partialMatch, TRUE, r)
      [] l.kind = "broadcast" -> RpcPredicate(l.method, l.path, l.partialMatch, FALSE, r)
      [] l.kind = "wait" ->
            IF l.method # "" /\ l.path # Empty /\ r.method = "POST"
            THEN RpcPredicate(l.method, l.path, l.partialMatch, TRUE, r)
            ELSE pathMatches(r.url, l.path, [partialMatch |-> l.partialMatch])

\* whether the predicate awaits the response body (`await resp.json()`)
\* before it answers
AsyncPredicate(l, r) ==
    \/ l.kind \in {"rpc", "broadcast"}
    \/ l.kind = "wait" /\ l.method # "" /\ l.path # Empty /\ r.method = "POST"

\* a listener that has delivered its outcome is removed by the library; its
\* slot keeps no content
DoneListener ==
    [owner |-> "", id |-> "", kind |-> "", path |-> Empty, method |-> "",
     partialMatch |-> FALSE, timeout |-> 0, state |-> "done", out |-> NoValue]

\* `.then` of a registration one-shot listener (lines 526-532)
ListenerThen(R, i, r) ==
    LET l == R.listeners[i]
        ls == [R.listeners EXCEPT ![i] = DoneListener]
    IN IF l.owner = "wait"
       THEN [R EXCEPT !.listeners[i].state = "settled", !.listeners[i].out = RespValue(r)]
       ELSE IF Has(R.monitorPromises, l.id)
            THEN [R EXCEPT !.listeners = ls,
                           !.controllers[R.monitorPromises[l.id]] = ResolveIfPending(@, r)]
            ELSE [R EXCEPT !.listeners = ls]

\* the error a registration listener's `.catch` rejects the monitor with
\* (lines 538-554): a message containing 'timeout' / 'timed out' is wrapped
\* into an error marked isTimeout
CatchError(e) ==
    IF e.msgWord THEN [e EXCEPT !.isTimeout = TRUE] ELSE e

\* `.catch` of a registration one-shot listener (lines 533-556)
ListenerCatch(R, i, e) ==
    LET l == R.listeners[i]
        ls == [R.listeners EXCEPT ![i] = DoneListener]
    IN IF l.owner = "wait"
       THEN [R EXCEPT !.listeners[i].state = "settled", !.listeners[i].out = ErrValue(e)]
       ELSE IF Has(R.monitorPromises, l.id)
            THEN [R EXCEPT !.listeners = ls,
                           !.controllers[R.monitorPromises[l.id]] =
                               RejectIfPending(@, CatchError(e))]
            ELSE [R EXCEPT !.listeners = ls]

\* the page emits `response`: every armed waitForResponse listener evaluates
\* its predicate; a synchronous predicate that holds settles the listener at
\* once, an asynchronous one first reads the body
RECURSIVE ListenersOnResponse(_, _, _)
ListenersOnResponse(R, i, r) ==
    IF i > Len(R.listeners) THEN R
    ELSE LET l == R.listeners[i]
             R1 == IF l.state = "armed" /\ ListenerPredicate(l, r)
                   THEN IF AsyncPredicate(l, r)
                        THEN [R EXCEPT !.listeners[i].state = "reading",
                                       !.listeners[i].out = RespValue(r)]
                        ELSE ListenerThen(R, i, r)
                   ELSE R
         IN ListenersOnResponse(R1, i + 1, r)

\* synchronous part of the global `response` handler (lines 201-213): the
\* 'all' log, and for a non-POST response the matching loop; then the
\* waitForResponse listeners
OnResponse(R, r) ==
    LET R1 == [R EXCEPT !.capturedResponses = PushResponse(@, "all", r)]
        R2 == IF r.method = "POST" THEN R1 ELSE GlobalDispatch(R1, r)
    IN ListenersOnResponse(R2, 1, r)

\* callback of the registration timer (lines 488-507)
TimerCallback(R, t) ==
    IF Has(R.monitorPromises, t.id)
    THEN [R EXCEPT !.timers = @ \ {t},
                   !.controllers[R.monitorPromises[t.id]] = RejectIfPending(@, RegTimeoutError)]
    ELSE [R EXCEPT !.timers = @ \ {t}]

\* the page closes: the constructor's close handler cancels every monitor;
\* then every outstanding page.waitForResponse rejects
RECURSIVE ListenersOnClose(_, _)
ListenersOnClose(R, i) ==
    IF i > Len(R.listeners) THEN R
    ELSE ListenersOnClose(
            IF R.listeners[i].state \in {"armed", "reading"}
            THEN ListenerCatch(R, i, ClosedError) ELSE R, i + 1)

OnClose(R) == ListenersOnClose(cancelAllMonitors(R), 1)

----------------------------------------------------------------------------
(* waitForResponse *)

NoResult ==
    [success |-> FALSE, data |-> "null", error |-> "none", timedOut |-> "undefined",
     responseTime |-> 0, status |-> 0, seq |-> 0, cause |-> "none"]

IdleWait ==
    [pc |-> "idle", id |-> "", ctrl |-> 0, oneTime |-> FALSE, lsn |-> 0,
     startTime |-> 0, out |-> NoValue, result |-> NoResult, cancelSeq |-> -1]

\* a finished call: only what it returned (and the history field) is kept
Returned(w, result) ==
    [IdleWait EXCEPT !.pc = "returned", !.id = w.id, !.result = result,
                     !.cancelSeq = w.cancelSeq]

\* lines 738-745
NotExistResult_responseTime == [NoResult EXCEPT !.error = "Monitor does not exist", !.responseTime = Now]
NotExistResult ==
    [NoResult EXCEPT !.error = "Monitor does not exist"]

\* lines 936-946
SuccessResult(r, startTime, now) ==
    [success |-> TRUE, data |-> r.body.payload, error |-> "none", timedOut |-> "false",
     responseTime |-> now - startTime, status |-> r.status, seq |-> r.seq, cause |-> "none"]

\* `(error.isTimeout === true) || (error.message && (includes('timeout') || ...))`
IsTimeoutError(e) == e.isTimeout \/ e.msgWord

\* lines 947-980
FailureResult_noTimedOut(e, startTime, now) ==
    [success |-> FALSE, data |-> "null", error |-> "message", timedOut |-> "undefined",
     responseTime |-> now - startTime, status |-> 0, seq |-> 0, cause |-> e.cause]

FailureResult(e, startTime, now) ==
    [success |-> FALSE, data |-> "null", error |-> "message",
     timedOut |-> IF IsTimeoutError(e) THEN "true" ELSE "false",
     responseTime |-> now - startTime, status |-> 0, seq |-> 0, cause |-> e.cause]

\* what the promise raced against the wait's timeoutPromise has settled with
RaceSource(R, w) ==
    IF w.oneTime THEN R.controllers[w.ctrl].value
    ELSE IF R.listeners[w.lsn].state = "settled" THEN R.listeners[w.lsn].out ELSE NoValue

\* lines 748-754 and 777-846: what the call captures, and for a continuous
\* monitor the waitForResponse listener it arms
WaitStart(R, monitorId, now) ==
    LET options == OptionsOf(R, monitorId)
        methodName == IF Has(R.monitorMethods, monitorId) THEN R.monitorMethods[monitorId] ELSE ""
        paramPath == IF Has(R.monitorPaths, monitorId) THEN R.monitorPaths[monitorId] ELSE Empty
    IN [reg |-> IF options.oneTime THEN R
                ELSE [R EXCEPT !.listeners =
                        Append(@, Listener("wait", monitorId, "wait", paramPath, methodName,
                                           [options EXCEPT !.timeout = 30000]))],
        wait |-> [IdleWait EXCEPT
                    !.pc = "waiting", !.id = monitorId, !.ctrl = R.monitorPromises[monitorId],
                    !.oneTime = options.oneTime,
                    !.lsn = IF options.oneTime THEN 0 ELSE Len(R.listeners) + 1,
                    !.startTime = IF Has(R.monitorStartTimes, monitorId)
                                  THEN R.monitorStartTimes[monitorId] ELSE now]]

\* the catch block (lines 947-980): clean up, return the failure
WaitCatch_noCleanup(X, w, e, now) ==
    [reg |-> X.reg,
     waits |-> [X.waits EXCEPT ![w] =
                  Returned(@, FailureResult(e, X.waits[w].startTime, now))]]

WaitCatch_rethrows(X, w, e, now) ==
    [reg |-> cleanupMonitor(X.reg, X.waits[w].id), waits |-> X.waits]

WaitCatch(X, w, e, now) ==
    [reg |-> cleanupMonitor(X.reg, X.waits[w].id),
     waits |-> [X.waits EXCEPT ![w] =
                  Returned(@, FailureResult(e, X.waits[w].startTime, now))]]

\* the continuation of `await Promise.race(...)`: it runs in the microtask
\* checkpoint of the task that settled the race.  A rejection goes to the
\* catch block; a response goes on to be decoded (awaiting its body)
WaitContinue(X, w, now) ==
    LET o == RaceSource(X.reg, X.waits[w])
    IN IF X.waits[w].pc # "waiting" \/ o.tag = "none" THEN X
       ELSE IF o.tag = "err" THEN WaitCatch(X, w, o.err, now)
       ELSE [X EXCEPT !.waits[w].pc = "decoding", !.waits[w].out = o]

RECURSIVE RunWaitersFrom(_, _, _)
RunWaitersFrom(X, w, now) ==
    IF w > MaxCalls THEN X ELSE RunWaitersFrom(WaitContinue(X, w, now), w + 1, now)

\* resume every waiting call whose race has just been settled
RunWaiters(R, ws, now) == RunWaitersFrom([reg |-> R, waits |-> ws], 1, now)

\* lines 932-946: the body has been read; clean up and return the success
WaitFinish(X, w, now) ==
    [reg |-> cleanupMonitor(X.reg, X.waits[w].id),
     waits |-> [X.waits EXCEPT ![w] =
                  Returned(@, SuccessResult(X.waits[w].out.resp, X.waits[w].startTime, now))]]

----------------------------------------------------------------------------
(* Inputs *)

Opt(oneTime, timeout, partialMatch) ==
    [oneTime |-> oneTime, timeout |-> timeout, silentTimeout |-> FALSE,
     partialMatch |-> partialMatch]

Config(fn, path, method, options) ==
    [fn |-> fn, path |-> path, method |-> method, options |-> options]

\* the registrations a client makes: which startMonitoring* and its
\* arguments, by the id it registers under
Configs(id) ==
    IF id = "a"
    THEN { Config("path", S_route, "POST", Opt(TRUE, 5000, TRUE)),
           Config("path", U_route, "", DefaultOptions) }
    ELSE { Config("rpc", S_simulate, "abci_query", Opt(TRUE, 15000, TRUE)) }

\* registrations by each of the four startMonitoring* methods, with and
\* without a timeout
TimedConfigs(id) ==
    IF id = "a"
    THEN { Config("all", Empty, "", DefaultOptions),
           Config("path", S_route, "POST", Opt(TRUE, 5000, TRUE)),
           Config("path", S_route, "POST", Opt(TRUE, 0, TRUE)) }
    ELSE { Config("rpc", S_simulate, "abci_query", Opt(TRUE, 15000, TRUE)),
           Config("broadcast", Empty, "broadcast_tx_sync", Opt(TRUE, 30000, FALSE)) }

JsonBody(hasId, id, payload) == [kind |-> "json", hasId |-> hasId, id |-> id, payload |-> payload]
RpcReq(m, path, id) == [json |-> TRUE, rpcMethod |-> m, path |-> path, id |-> id]
Response(seq, url, status, method, req, body) ==
    [seq |-> seq, url |-> url, status |-> status, method |-> method, req |-> req, body |-> body]

\* the responses the page can emit
Traffic(seq) ==
    { Response(seq, U_route, 200, "GET", NoReq, NoBody),
      Response(seq, U_route, 201, "POST", [NoReq EXCEPT !.json = TRUE], JsonBody(FALSE, 0, "clean")),
      Response(seq, U_rpc, 200, "POST", RpcReq("abci_query", P_simulate, 1), JsonBody(TRUE, 1, "clean")) }

----------------------------------------------------------------------------
(* The result of a pipeline run *)

\* result.error: a fixed text, or a prefix followed by a text taken from a
\* response or an exception
Err(prefix, text) == [prefix |-> prefix, text |-> text]
NoError == Err("", "")

\* the result object performBridgeOperation creates (AppPage.ts lines 133-143)
NewResult ==
    [success |-> FALSE, testProgress |-> "untested", routePass |-> "undefined",
     error |-> NoError, transactionHash |-> "undefined",
     timing |-> [startTime |-> 0, endTime |-> 0, duration |-> 0]]

NoThrow == [stage |-> 0, testProgress |-> "", routePass |-> ""]

Kinds == {"route", "msgs", "simulate", "broadcast"}

\* what the pipeline reads of an ApiResponseResult
Seen(api) ==
    [success |-> api.success, status |-> api.status, data |-> api.data,
     timedOut |-> api.timedOut]

\* one invocation of performBridgeOperation: where it is, its result object,
\* the value the awaited stage returned, and history (the UI actions and
\* registrations made so far, the stage that reported failure, the first
\* exception, the calls of screenshot and finalizeResult, what each
\* waitForResponse returned, what the UI fallback saw)
PipeIdle ==
    [pc |-> "idle", result |-> NewResult, stage |-> 0, ret |-> TRUE, log |-> <<>>, failed |-> 0,
     thrown |-> NoThrow, errorShot |-> FALSE, finalized |-> 0, expect |-> {},
     simError |-> FALSE, seen |-> [k \in Kinds |-> Seen(NoResult)],
     ui |-> [error |-> FALSE, button |-> "unseen"]]

----------------------------------------------------------------------------
(* Actions of the registry *)

Init ==
    /\ monitorPromises = EmptyMap
    /\ monitorStartTimes = EmptyMap
    /\ monitorPaths = EmptyMap
    /\ monitorOptions = EmptyMap
    /\ monitorMethods = EmptyMap
    /\ capturedResponses = [x \in {"all"} |-> <<>>]
    /\ controllers = <<>>
    /\ timers = {}
    /\ listeners = <<>>
    /\ handlers = {}
    /\ waits = [w \in Waiters |-> IdleWait]
    /\ regCount = 0
    /\ evCount = 0
    /\ waitCount = 0
    /\ pageClosed = FALSE
    /\ pipe = PipeIdle

ApplyConfig(R, id, k, now) ==
    CASE k.fn = "path" -> startMonitoringSpecificPath(R, k.path, k.method, id, k.options, now)
      [] k.fn = "rpc" -> startMonitoringRpcMethod(R, k.method, k.path, id, k.options, now)
      [] k.fn = "broadcast" -> startMonitoringBroadcastRPC(R, k.method, id, k.options, now)
      [] k.fn = "all" -> startMonitoringAll(R, id, k.options, now)

\* Objects nothing refers to any more keep no content: a controller that is
\* neither registered nor awaited by a call in progress, and the listener of
\* a call that has returned.
Collect(X) ==
    LET R == X.reg
        liveC == {R.monitorPromises[id] : id \in DOMAIN R.monitorPromises}
                   \cup {X.waits[w].ctrl : w \in {v \in Waiters : X.waits[v].pc = "waiting"}}
        liveL == {X.waits[w].lsn : w \in {v \in Waiters : X.waits[v].pc = "waiting"}}
    IN [reg |-> [R EXCEPT
                   !.controllers = [c \in DOMAIN @ |->
                        IF c \in liveC \/ @[c].settles > 1 THEN @[c]
                        ELSE createPromiseController],
                   !.listeners = [i \in DOMAIN @ |->
                        IF @[i].owner = "wait" /\ i \notin liveL THEN DoneListener ELSE @[i]]],
        waits |-> X.waits]

SetAll(X) ==
    \E X1 \in {X} : \E Y \in {Collect(X1)} : SetReg(Y.reg) /\ waits' = Y.waits

\* the registry step R, followed by the continuations of the waits it settled
Step(R) == \E R1 \in {R} : SetAll(RunWaiters(R1, waits, Now))

\* a client calls one of the startMonitoring* methods
Register(id, k) ==
    /\ Calls < MaxCalls
    /\ SetAll([reg |-> ApplyConfig(Reg, id, k, Now), waits |-> waits])
    /\ regCount' = regCount + 1
    /\ UNCHANGED <<handlers, evCount, waitCount, pageClosed, pipe>>

\* the page emits a response event
ResponseEvent(r) ==
    /\ ~pageClosed
    /\ Calls < MaxCalls
    /\ Step(OnResponse(Reg, r))
    /\ handlers' = IF r.method = "POST" THEN handlers \cup {r} ELSE handlers
    /\ evCount' = evCount + 1
    /\ UNCHANGED <<regCount, waitCount, pageClosed, pipe>>

\* a global handler resumes after reading the body of a POST response
HandlerResume(r) ==
    /\ r \in handlers
    /\ Step(GlobalDispatch(Reg, r))
    /\ handlers' = handlers \ {r}
    /\ UNCHANGED <<regCount, evCount, waitCount, pageClosed, pipe>>

\* an asynchronous predicate has read the body and answered true
ListenerResolved(i) ==
    /\ listeners[i].state = "reading"
    /\ Step(ListenerThen(Reg, i, listeners[i].out.resp))
    /\ UNCHANGED <<handlers, regCount, evCount, waitCount, pageClosed, pipe>>

\* the one-shot page.waitForResponse of a registration gives up after its
\* `timeout` option and its `.catch` runs (a timer of the same delay armed
\* earlier in the same call, the registration timer, fires first)
ListenerExpire(i, word) ==
    /\ listeners[i].owner = "reg"
    /\ listeners[i].state = "armed"
    /\ listeners[i].timeout # 0
    /\ \A t \in timers : t.lsn # i
    /\ Step(ListenerCatch(Reg, i, LsnTimeoutError(word)))
    /\ UNCHANGED <<handlers, regCount, evCount, waitCount, pageClosed, pipe>>

\* a registration timer fires
TimerFire(t) ==
    /\ t \in timers
    /\ Step(TimerCallback(Reg, t))
    /\ UNCHANGED <<handlers, regCount, evCount, waitCount, pageClosed, pipe>>

\* history: remember at which event count the monitor a call is waiting on
\* was removed by a cancellation
MarkCancelled(ws, R, ids) ==
    [w \in DOMAIN ws |->
        IF /\ ws[w].pc \in {"waiting", "decoding"}
           /\ ws[w].id \in ids
           /\ Has(R.monitorPromises, ws[w].id)
           /\ R.monitorPromises[ws[w].id] = ws[w].ctrl
           /\ ws[w].cancelSeq = -1
        THEN [ws[w] EXCEPT !.cancelSeq = evCount]
        ELSE ws[w]]

Cancel(id) ==
    /\ SetAll([reg |-> cancelMonitor(Reg, id), waits |-> MarkCancelled(waits, Reg, {id})])
    /\ UNCHANGED <<handlers, regCount, evCount, waitCount, pageClosed, pipe>>

CancelAll ==
    /\ SetAll([reg |-> cancelAllMonitors(Reg), waits |-> MarkCancelled(waits, Reg, Ids)])
    /\ UNCHANGED <<handlers, regCount, evCount, waitCount, pageClosed, pipe>>

PageClose ==
    /\ ~pageClosed
    /\ pageClosed' = TRUE
    /\ SetAll(RunWaiters(OnClose(Reg), MarkCancelled(waits, Reg, Ids), Now))
    /\ UNCHANGED <<handlers, regCount, evCount, waitCount, pipe>>

\* a client calls waitForResponse(id)
WaitCall(w, id) ==
    /\ waits[w].pc = "idle"
    /\ \A v \in Waiters : v < w => waits[v].pc # "idle"
    /\ Calls < MaxCalls
    /\ waitCount' = waitCount + 1
    /\ IF ~Has(monitorPromises, id)
       THEN /\ waits' = [waits EXCEPT ![w] = Returned([IdleWait EXCEPT !.id = id], NotExistResult)]
            /\ UNCHANGED regVars
       ELSE LET s == WaitStart(Reg, id, Now)
            IN SetAll(WaitContinue([reg |-> s.reg, waits |-> [waits EXCEPT ![w] = s.wait]], w, Now))
    /\ UNCHANGED <<handlers, regCount, evCount, pageClosed, pipe>>

\* the timer of the wait's timeoutPromise fires while the call is still
\* waiting: the race rejects and the catch block runs
WaitTimerFire(w) ==
    /\ waits[w].pc = "waiting"
    /\ SetAll(WaitCatch([reg |-> Reg, waits |-> waits], w, WaitTimeoutError, Now))
    /\ UNCHANGED <<handlers, regCount, evCount, waitCount, pageClosed, pipe>>

\* the body of the captured response has been read: clean up and return
WaitDecoded(w) ==
    /\ waits[w].pc = "decoding"
    /\ SetAll(WaitFinish([reg |-> Reg, waits |-> waits], w, Now))
    /\ UNCHANGED <<handlers, regCount, evCount, waitCount, pageClosed, pipe>>

Next ==
    \/ \E id \in Ids : \E k \in Configs(id) : Register(id, k)
    \/ \E r \in Traffic(evCount + 1) : ResponseEvent(r)
    \/ \E r \in handlers : HandlerResume(r)
    \/ \E i \in DOMAIN listeners : ListenerResolved(i)
    \/ \E i \in DOMAIN listeners, word \in BOOLEAN : ListenerExpire(i, word)
    \/ \E t \in timers : TimerFire(t)
    \/ \E id \in Ids : Cancel(id)
    \/ CancelAll
    \/ PageClose
    \/ \E w \in Waiters, id \in Ids : WaitCall(w, id)
    \/ \E w \in Waiters : WaitTimerFire(w)
    \/ \E w \in Waiters : WaitDecoded(w)

Spec == Init /\ [][Next]_vars

\* The event loop runs the timer of every wait in progress and delivers the
\* body of every captured response that is being decoded.
\* Here the clients use one monitor id, registered by any of the
\* registrations of Configs.
WaitNext ==
    \/ \E k \in Configs("a") \cup Configs("b") : Register("a", k)
    \/ \E r \in Traffic(evCount + 1) : ResponseEvent(r)
    \/ \E r \in handlers : HandlerResume(r)
    \/ \E i \in DOMAIN listeners : ListenerResolved(i)
    \/ \E i \in DOMAIN listeners, word \in BOOLEAN : ListenerExpire(i, word)
    \/ \E t \in timers : TimerFire(t)
    \/ Cancel("a")
    \/ CancelAll
    \/ PageClose
    \/ \E w \in Waiters : WaitCall(w, "a")
    \/ \E w \in Waiters : WaitTimerFire(w)
    \/ \E w \in Waiters : WaitDecoded(w)

WaitLiveSpec ==
    /\ Init
    /\ [][WaitNext]_vars
    /\ \A w \in Waiters : WF_vars(WaitTimerFire(w)) /\ WF_vars(WaitDecoded(w))

\* Clients of one monitor id that register it with any of the four
\* startMonitoring* methods, with and without a timeout, and wait on it.
AllNext ==
    \/ \E k \in TimedConfigs("a") \cup TimedConfigs("b") : Register("a", k)
    \/ \E r \in Traffic(evCount + 1) : ResponseEvent(r)
    \/ \E r \in handlers : HandlerResume(r)
    \/ \E i \in DOMAIN listeners : ListenerResolved(i)
    \/ \E i \in DOMAIN listeners, word \in BOOLEAN : ListenerExpire(i, word)
    \/ \E t \in timers : TimerFire(t)
    \/ \E w \in Waiters : WaitCall(w, "a")
    \/ \E w \in Waiters : WaitTimerFire(w)
    \/ \E w \in Waiters : WaitDecoded(w)

AllSpec == Init /\ [][AllNext]_vars

\* The registry left to itself: registrations and traffic, no wait, no
\* cancellation.  The event loop runs every timer that is due.
TimedNext ==
    \/ \E id \in Ids : \E k \in TimedConfigs(id) : Register(id, k)
    \/ \E r \in Traffic(evCount + 1) : ResponseEvent(r)
    \/ \E r \in handlers : HandlerResume(r)
    \/ \E i \in DOMAIN listeners : ListenerResolved(i)
    \/ \E i \in DOMAIN listeners, word \in BOOLEAN : ListenerExpire(i, word)
    \/ \E t \in timers : TimerFire(t)

TimedSpec == Init /\ [][TimedNext]_vars /\ WF_vars(\E t \in timers : TimerFire(t))

\* Responses that test the matching rules: for the route path and for the
\* simulate RPC call a response that fits the rule, and responses that share
\* only the URL with it (another HTTP method, a URL that contains the RPC
\* parameter path, an RPC answer with another id).
MatchTraffic(seq) ==
    LET U_sim == <<"h", "S">>
    IN { Response(seq, U_route, 200, "GET", NoReq, NoBody),
         Response(seq, U_route, 201, "POST", [NoReq EXCEPT !.json = TRUE], JsonBody(FALSE, 0, "clean")),
         Response(seq, U_rpc, 200, "POST", RpcReq("abci_query", P_simulate, 1), JsonBody(TRUE, 1, "clean")),
         Response(seq, U_rpc, 200, "POST", RpcReq("abci_query", P_simulate, 1), JsonBody(TRUE, 2, "clean")),
         Response(seq, U_sim, 200, "GET", NoReq, NoBody),
         Response(seq, U_sim, 200, "POST", [NoReq EXCEPT !.json = TRUE], JsonBody(FALSE, 0, "clean")) }

\* registrations and traffic only
MatchNext ==
    \/ \E id \in Ids : \E k \in Configs(id) : Register(id, k)
    \/ \E r \in MatchTraffic(evCount + 1) : ResponseEvent(r)
    \/ \E r \in handlers : HandlerResume(r)
    \/ \E i \in DOMAIN listeners : ListenerResolved(i)
    \/ \E i \in DOMAIN listeners, word \in BOOLEAN : ListenerExpire(i, word)
    \/ \E t \in timers : TimerFire(t)

MatchSpec == Init /\ [][MatchNext]_vars

\* The matching rule on its own: a client registers a continuous path monitor
\* with any rule and either policy, then the page emits GET responses with
\* any URL (strings over a two-letter alphabet, the empty string included).
PathNext ==
    \/ \E rule \in UNION {[1..n -> {"h", "r"}] : n \in 0..MaxLen}, partial \in BOOLEAN :
          /\ ~Has(monitorPromises, "a")
          /\ Register("a", Config("path", rule, "", Opt(FALSE, 0, partial)))
    \/ \E url \in UNION {[1..n -> {"h", "r"}] : n \in 0..MaxLen} :
          /\ Has(monitorPromises, "a")
          /\ ResponseEvent(Response(evCount + 1, url, 200, "GET", NoReq, NoBody))

PathSpec == Init /\ [][PathNext]_vars


----------------------------------------------------------------------------
(* The bridge-operation pipeline (tests/pages/AppPage.ts) *)

Rank(tp) == CASE tp = "untested" -> 0 [] tp = "routeTested" -> 1 [] tp = "SignTested" -> 2

\* the message of the exception a collaborator throws, and the raw_log of a
\* failed simulation
Boom == "boom"
RawLog == "insufficient funds"

Options(success, testProgress, routePass) ==
    [success |-> success, testProgress |-> testProgress, routePass |-> routePass]

\* finalizeResult (lines 841-908); result.success is never undefined here,
\* the result object is created with success: false
finalizeResult_noTiming(p, options) ==
    [p EXCEPT
       !.result.success = IF options.success # "undefined" THEN options.success = "true" ELSE @,
       !.result.testProgress = IF options.testProgress # "undefined"
                               THEN options.testProgress ELSE @,
       !.result.routePass = IF options.routePass # "undefined" THEN options.routePass ELSE @,
       !.finalized = @ + 1,
       !.pc = "done"]

finalizeResult(p, options) ==
    [p EXCEPT
       !.result.timing =
           LET startTime == IF @.startTime # 0 THEN @.startTime ELSE Now
           IN [startTime |-> startTime, endTime |-> Now, duration |-> Now - startTime],
       !.result.success = IF options.success # "undefined" THEN options.success = "true" ELSE @,
       !.result.testProgress = IF options.testProgress # "undefined"
                               THEN options.testProgress ELSE @,
       !.result.routePass = IF options.routePass # "undefined" THEN options.routePass ELSE @,
       !.finalized = @ + 1,
       !.pc = "done"]

\* the catch block of performBridgeOperation (lines 211-231)
Catch(p, message) ==
    finalizeResult([p EXCEPT !.result.error = Err("", message), !.errorShot = TRUE],
                   Options("false", p.result.testProgress, p.result.routePass))

\* history: the first exception of the run, with the progress held then
Thrown(p, stage) ==
    IF p.thrown.stage # 0 THEN p
    ELSE [p EXCEPT !.thrown = [stage |-> stage, testProgress |-> p.result.testProgress,
                               routePass |-> p.result.routePass]]

\* a stage function returns `ok` to performBridgeOperation
Return(p, stage, ok) ==
    [p EXCEPT !.pc = "gate", !.stage = stage, !.ret = ok,
              !.failed = IF @ # 0 THEN @ ELSE IF ok THEN 0 ELSE stage]

GateOptions_allRouteTested(stage) ==
    CASE stage \in {1, 2, 3, 5} -> Options("false", "routeTested", "false")
      [] stage = 6 -> Options("false", "SignTested", "true")

GateOptions(stage) ==
    CASE stage \in {1, 2} -> Options("false", "untested", "undefined")
      [] stage \in {3, 5} -> Options("false", "routeTested", "false")
      [] stage = 6 -> Options("false", "SignTested", "true")

NextStage_noRegistration(stage) ==
    CASE stage = 1 -> "bridge" [] stage = 2 -> "amount" [] stage = 3 -> "select"
      [] stage = 5 -> "confirm"

NextStage(stage) ==
    CASE stage = 1 -> "bridge" [] stage = 2 -> "route_reg" [] stage = 3 -> "select"
      [] stage = 5 -> "confirm"

\* `if (!await stage(...)) return this.finalizeResult(...)` (lines 153-210)
Gate_continues(p, stage) ==
    IF stage = 6 THEN finalizeResult(p, Options("true", "SignTested", "true"))
    ELSE [p EXCEPT !.pc = NextStage(stage)]

Gate(p, stage) ==
    IF ~p.ret THEN finalizeResult(p, GateOptions(stage))
    ELSE IF stage = 6 THEN finalizeResult(p, Options("true", "SignTested", "true"))
    ELSE [p EXCEPT !.pc = NextStage(stage)]

\* A response body as waitForResponse hands it over: "none" and "null" are no
\* data; "clean", "error", "noroutes" and "noroutes_code5" are decoded JSON
\* objects (without and with the word "error", {message: "no routes found"},
\* {code: 5, message: "no routes found"}); "text", "text_error" and
\* "text_noroutes" are plain text (without the word, with it, containing
\* "no routes found"); "text_json" is a string holding JSON text.
IsString(data) == data \in {"text", "text_error", "text_noroutes", "text_json"}

\* dataStr.includes("error") || dataStr.includes("Error") (lines 139-140)
HasErrorWord_always(data) == TRUE
HasErrorWord(data) == data \in {"error", "text_error"}

\* hasNoRoutesFoundError (lines 55-74)
hasNoRoutesFoundError_anyStatus(api) ==
    /\ api.data \notin {"none", "null"}
    /\ \/ ~IsString(api.data) /\ api.data \in {"noroutes", "noroutes_code5"}
       \/ IsString(api.data) /\ api.data = "text_noroutes"

hasNoRoutesFoundError(api) ==
    /\ api.status = 404 \/ ~api.success
    /\ api.data \notin {"none", "null"}
    /\ \/ ~IsString(api.data) /\ api.data \in {"noroutes", "noroutes_code5"}
       \/ IsString(api.data) /\ api.data = "text_noroutes"

\* the error message of a non-201 response (lines 94-121): a string is parsed
\* and stringified again ("json" is the compact form of "text_json") or, when
\* it is not JSON, used as it is; an object is stringified; no data gives the
\* generic message
ErrorText(api, generic) ==
    IF api.data \in {"none", "null"} THEN Err(generic, "status")
    ELSE IF IsString(api.data)
    THEN (IF api.data = "text_json" THEN Err("", "json") ELSE Err("", api.data))
    ELSE Err("", api.data)

\* handleRouteApiResponse (ApiResponseHandler.ts lines 82-158)
handleRouteApiResponse_rawError(res, api) ==
    IF api.status # 201
    THEN [abort |-> TRUE,
          result |-> [res EXCEPT
             !.error = ErrorText(api, "Route API request failed, status code: "),
             !.testProgress = "routeTested", !.routePass = "false"]]
    ELSE IF api.data \notin {"none", "null"} /\ ~IsString(api.data) /\ HasErrorWord(api.data)
    THEN [abort |-> TRUE,
          result |-> [res EXCEPT !.error = Err("", api.data),
                                 !.testProgress = "routeTested", !.routePass = "false"]]
    ELSE [abort |-> FALSE,
          result |-> [res EXCEPT !.testProgress = "routeTested", !.routePass = "true"]]

handleRouteApiResponse(res, api) ==
    IF api.status # 201
    THEN [abort |-> TRUE,
          result |-> [res EXCEPT
             !.error = IF hasNoRoutesFoundError(api) THEN Err("", "no routes found")
                       ELSE ErrorText(api, "Route API request failed, status code: "),
             !.testProgress = "routeTested", !.routePass = "false"]]
    ELSE IF api.data \notin {"none", "null"} /\ ~IsString(api.data) /\ HasErrorWord(api.data)
    THEN [abort |-> TRUE,
          result |-> [res EXCEPT !.error = Err("", api.data),
                                 !.testProgress = "routeTested", !.routePass = "false"]]
    ELSE [abort |-> FALSE,
          result |-> [res EXCEPT !.testProgress = "routeTested", !.routePass = "true"]]

\* handleMsgsApiResponse (ApiResponseHandler.ts lines 166-284)
handleMsgsApiResponse(res, api) ==
    IF api.status # 201
    THEN [abort |-> TRUE,
          result |-> [res EXCEPT
             !.error = ErrorText(api, "Messages API request failed, status code: ")]]
    ELSE IF api.data \notin {"none", "null"} /\ ~IsString(api.data) /\ HasErrorWord(api.data)
    THEN [abort |-> TRUE, result |-> [res EXCEPT !.error = Err("", api.data)]]
    ELSE [abort |-> FALSE, result |-> res]

\* What handleSimulateRpcResponse reads of a body: whether it has a top-level
\* error, where the simulation result is found ("object": result is an
\* object, "b64": result is a Base64 string that decodes to JSON, "alt":
\* response.result, "none": nowhere), the code of the parsed result, which of
\* raw_log, message and log it has, and which keyword its lower-cased
\* stringification contains ("error_frag": "error" followed by a closing
\* brace, "fail": only "fail", "none": neither).
SimBody(data) ==
    LET B(error, result, code, raw_log, message, log, word) ==
            [error |-> error, result |-> result, code |-> code, raw_log |-> raw_log,
             message |-> message, log |-> log, word |-> word]
    IN CASE data = "toperror"     -> B(TRUE, "object", "nonzero", TRUE, FALSE, FALSE, "none")
         [] data = "clean"        -> B(FALSE, "object", "zero", FALSE, FALSE, FALSE, "none")
         [] data = "code_rawlog"  -> B(FALSE, "object", "nonzero", TRUE, TRUE, FALSE, "none")
         [] data = "code_message" -> B(FALSE, "object", "nonzero", FALSE, TRUE, FALSE, "none")
         [] data = "code_only"    -> B(FALSE, "object", "nonzero", FALSE, FALSE, FALSE, "none")
         [] data = "b64_code"     -> B(FALSE, "b64", "nonzero", TRUE, FALSE, FALSE, "none")
         [] data = "alt_code"     -> B(FALSE, "alt", "nonzero", TRUE, FALSE, FALSE, "none")
         [] data = "kw_rawlog"    -> B(FALSE, "object", "zero", TRUE, FALSE, TRUE, "fail")
         [] data = "kw_log"       -> B(FALSE, "object", "undefined", FALSE, FALSE, TRUE, "error_frag")
         [] data = "kw_fragment"  -> B(FALSE, "object", "zero", FALSE, FALSE, FALSE, "error_frag")
         [] data = "kw_fail"      -> B(FALSE, "object", "zero", FALSE, FALSE, FALSE, "fail")
         [] OTHER                 -> B(FALSE, "none", "undefined", FALSE, FALSE, FALSE, "none")

\* handleSimulateRpcResponse (AppPage.ts lines 604-722)
handleSimulateRpcResponse_noDefault(res, api) ==
    LET b == SimBody(api.data)
        Failed(text) ==
            [isError |-> TRUE,
             result |-> [res EXCEPT !.error = Err("Transaction simulation failed: ", text)]]
    IN IF api.data \in {"none", "null"} THEN [isError |-> FALSE, result |-> res]
       ELSE IF b.error THEN Failed("error")
       ELSE IF b.result = "none" THEN [isError |-> FALSE, result |-> res]
       ELSE IF b.code = "nonzero"
       THEN Failed(IF b.raw_log THEN RawLog ELSE IF b.message THEN "message" ELSE "Code: ")
       ELSE IF b.word # "none"
       THEN Failed(IF b.raw_log THEN RawLog ELSE IF b.log THEN "log" ELSE "fragment")
       ELSE [isError |-> FALSE, result |-> res]

handleSimulateRpcResponse(res, api) ==
    LET b == SimBody(api.data)
        Failed(text) ==
            [isError |-> TRUE,
             result |-> [res EXCEPT !.error = Err("Transaction simulation failed: ", text)]]
    IN IF api.data \in {"none", "null"} THEN [isError |-> FALSE, result |-> res]
       ELSE IF b.error THEN Failed("error")
       ELSE IF b.result = "none" THEN [isError |-> FALSE, result |-> res]
       ELSE IF b.code = "nonzero"
       THEN Failed(IF b.raw_log THEN RawLog ELSE IF b.message THEN "message" ELSE "Code: ")
       ELSE IF b.word # "none"
       THEN Failed(IF b.raw_log THEN RawLog
                   ELSE IF b.log THEN "log"
                   ELSE IF b.word = "error_frag" THEN "fragment"
                   ELSE "Unknown error")
       ELSE [isError |-> FALSE, result |-> res]

\* processBroadcastResponse (ApiMonitor.ts lines 1244-1305): "noresult" is a
\* body without result, "code0_hash" and "code0" have result.code 0 with and
\* without result.hash, "codeN" and "codeN_nolog" another code with and
\* without result.log
Hash == "ABC123"
processBroadcastResponse_noHash(api) ==
    IF ~api.success \/ api.data \in {"none", "null"}
    THEN [success |-> FALSE, hash |-> "undefined",
          error |-> Err("", IF api.error # "none" THEN api.error ELSE "Failed to get response")]
    ELSE IF api.data = "noresult"
    THEN [success |-> FALSE, hash |-> "undefined", error |-> Err("", "No result field in response")]
    ELSE IF api.data \in {"code0", "code0_hash"}
    THEN [success |-> TRUE, hash |-> "undefined", error |-> NoError]
    ELSE [success |-> FALSE, hash |-> "undefined",
          error |-> Err("Transaction failed (code=): ",
                        IF api.data = "codeN_nolog" THEN "Unknown error" ELSE "log")]

processBroadcastResponse_anyCode(api) ==
    IF ~api.success \/ api.data \in {"none", "null"}
    THEN [success |-> FALSE, hash |-> "undefined",
          error |-> Err("", IF api.error # "none" THEN api.error ELSE "Failed to get response")]
    ELSE IF api.data = "noresult"
    THEN [success |-> FALSE, hash |-> "undefined", error |-> Err("", "No result field in response")]
    ELSE IF api.data = "code0_hash" THEN [success |-> TRUE, hash |-> Hash, error |-> NoError]
    ELSE [success |-> TRUE, hash |-> "undefined", error |-> NoError]

processBroadcastResponse(api) ==
    IF ~api.success \/ api.data \in {"none", "null"}
    THEN [success |-> FALSE, hash |-> "undefined",
          error |-> Err("", IF api.error # "none" THEN api.error ELSE "Failed to get response")]
    ELSE IF api.data = "noresult"
    THEN [success |-> FALSE, hash |-> "undefined", error |-> Err("", "No result field in response")]
    ELSE IF api.data = "code0_hash" THEN [success |-> TRUE, hash |-> Hash, error |-> NoError]
    ELSE IF api.data = "code0" THEN [success |-> TRUE, hash |-> "undefined", error |-> NoError]
    ELSE [success |-> FALSE, hash |-> "undefined",
          error |-> Err("Transaction failed (code=): ",
                        IF api.data = "codeN_nolog" THEN "Unknown error" ELSE "log")]

\* the monitor each stage registers, and the program point that waits on it
MonitorOf(pc) ==
    CASE pc \in {"route_call", "route_wait"} -> "route"
      [] pc \in {"msgs_call", "msgs_wait"} -> "msgs"
      [] pc \in {"sim_call", "sim_wait"} -> "simulate"
      [] pc \in {"bc_call", "bc_wait"} -> "broadcast"

WaitPc(pc) ==
    CASE pc = "route_call" -> "route_wait" [] pc = "msgs_call" -> "msgs_wait"
      [] pc = "sim_call" -> "sim_wait" [] pc = "bc_call" -> "bc_wait"

\* the responses the application's backend sends after the UI action that
\* asks for them
PipeTraffic(kind, seq) ==
    CASE kind = "route" ->
            { Response(seq, U_route, 201, "POST", [NoReq EXCEPT !.json = TRUE], JsonBody(FALSE, 0, "clean")),
              Response(seq, U_route, 201, "POST", [NoReq EXCEPT !.json = TRUE], JsonBody(FALSE, 0, "error")),
              Response(seq, U_route, 404, "POST", [NoReq EXCEPT !.json = TRUE], JsonBody(FALSE, 0, "noroutes")),
              Response(seq, U_route, 500, "POST", [NoReq EXCEPT !.json = TRUE], JsonBody(FALSE, 0, "noroutes")) }
      [] kind = "msgs" ->
            { Response(seq, U_msgs, 201, "POST", [NoReq EXCEPT !.json = TRUE], JsonBody(FALSE, 0, "clean")),
              Response(seq, U_msgs, 500, "POST", [NoReq EXCEPT !.json = TRUE], JsonBody(FALSE, 0, "error")) }
      [] kind = "simulate" ->
            { Response(seq, U_rpc, 200, "POST", RpcReq("abci_query", P_simulate, 1), JsonBody(TRUE, 1, "clean")),
              Response(seq, U_rpc, 200, "POST", RpcReq("abci_query", P_simulate, 1), JsonBody(TRUE, 1, "code_rawlog")) }
      [] kind = "broadcast" ->
            { Response(seq, U_rpc, 200, "POST", RpcReq("broadcast_tx_sync", Empty, 2), JsonBody(TRUE, 2, "code0_hash")),
              Response(seq, U_rpc, 200, "POST", RpcReq("broadcast_tx_sync", Empty, 2), JsonBody(TRUE, 2, "code0")),
              Response(seq, U_rpc, 200, "POST", RpcReq("broadcast_tx_sync", Empty, 2), JsonBody(TRUE, 2, "codeN")) }

PipeFrame == UNCHANGED <<handlers, evCount, waitCount, pageClosed>>
RegFrame == UNCHANGED <<regVars, waits, regCount>>

\* lines 144-150: first screenshot, then cancelAllMonitors()
PStart ==
    /\ pipe.pc = "idle"
    /\ SetAll([reg |-> cancelAllMonitors(Reg), waits |-> waits])
    /\ pipe' = [pipe EXCEPT !.pc = "wallet", !.result.timing.startTime = Now]
    /\ UNCHANGED regCount /\ PipeFrame

\* setupWalletConnection (lines 237-259)
PWallet(connected, throws) ==
    /\ pipe.pc = "wallet"
    /\ pipe' = IF throws THEN Catch(Thrown(pipe, 1), Boom)
               ELSE LET p == [pipe EXCEPT !.log = Append(@, "wallet")]
                    IN IF connected THEN Return(p, 1, TRUE)
                       ELSE Return([p EXCEPT !.result.error = Err("", "Wallet connection failed")],
                                   1, FALSE)
    /\ RegFrame /\ PipeFrame

\* performBridgeOperation resumes with the value the stage returned
PGate ==
    /\ pipe.pc = "gate"
    /\ pipe' = Gate(pipe, pipe.stage)
    /\ RegFrame /\ PipeFrame

\* setupBridgeTransaction (lines 264-326)
PBridge(navigated, throws) ==
    /\ pipe.pc = "bridge"
    /\ pipe' = IF throws THEN Catch(Thrown(pipe, 2), Boom)
               ELSE LET p == [pipe EXCEPT !.log = Append(@, "bridge")]
                    IN IF navigated THEN Return(p, 2, TRUE)
                       ELSE Return([p EXCEPT !.result.error =
                                       Err("", "Unable to navigate to Bridge interface")], 2, FALSE)
    /\ RegFrame /\ PipeFrame

\* the pipeline registers a monitor: R is the registry the call leaves
PRegister(R, p) ==
    /\ SetAll([reg |-> R, waits |-> waits])
    /\ regCount' = regCount + 1
    /\ pipe' = p
    /\ PipeFrame

\* processAmountAndMonitorRoute, lines 335-340: the route monitor
PRouteRegister ==
    /\ pipe.pc = "route_reg"
    /\ PRegister(startMonitoringSpecificPath(Reg, S_route, "POST", "route",
                                             Opt(TRUE, 5000, TRUE), Now),
                 [pipe EXCEPT !.pc = "amount", !.stage = 3, !.log = Append(@, "reg_route")])

\* line 344: the amount is typed; the application may ask for a route
PEnterAmount(throws) ==
    /\ pipe.pc = "amount"
    /\ pipe' = IF throws THEN Catch(Thrown(pipe, 3), Boom)
               ELSE [pipe EXCEPT !.pc = "route_call", !.log = Append(@, "ui_amount"),
                                 !.expect = @ \cup {"route"}]
    /\ RegFrame /\ PipeFrame

\* the pipeline calls waitForResponse on the monitor of its stage
PWaitCall ==
    /\ pipe.pc \in {"route_call", "msgs_call", "sim_call", "bc_call"}
    /\ waits[1].pc = "idle"
    /\ LET id == MonitorOf(pipe.pc)
       IN IF ~Has(monitorPromises, id)
          THEN /\ waits' = [waits EXCEPT ![1] = Returned([IdleWait EXCEPT !.id = id], NotExistResult)]
               /\ UNCHANGED regVars
          ELSE LET s == WaitStart(Reg, id, Now)
               IN SetAll(WaitContinue([reg |-> s.reg, waits |-> [waits EXCEPT ![1] = s.wait]],
                                      1, Now))
    /\ pipe' = [pipe EXCEPT !.pc = WaitPc(@)]
    /\ UNCHANGED regCount /\ PipeFrame

\* What is left behind by a monitor the pipeline has consumed and cannot
\* act any more (the pipeline never registers an id twice): the one-shot
\* listener of a monitor that is gone, the global handler still reading a
\* body that matches no monitor, a request the backend has not answered.
Quiet(R) ==
    [R EXCEPT !.listeners = [i \in DOMAIN @ |->
        IF @[i].owner = "reg" /\ ~Has(R.monitorPromises, @[i].id) THEN DoneListener ELSE @[i]]]

\* the value waitForResponse returned is consumed by p
PWaitDone(p) ==
    /\ waits[1].pc = "returned"
    /\ SetAll([reg |-> Quiet(Reg), waits |-> [waits EXCEPT ![1] = IdleWait]])
    /\ handlers' = {r \in handlers : GlobalMatches(Reg, r) # {}}
    /\ pipe' = [p EXCEPT !.expect = {}, !.seen[MonitorOf(pipe.pc)] = Seen(waits[1].result)]
    /\ UNCHANGED <<regCount, evCount, waitCount, pageClosed>>

\* lines 351-370: the route verdict from the API, or the UI fallback
PRouteDone ==
    /\ pipe.pc = "route_wait"
    /\ LET api == waits[1].result
           h == handleRouteApiResponse(pipe.result, api)
       IN PWaitDone(IF api.success
                    THEN Return([pipe EXCEPT !.result = h.result], 3, ~h.abort)
                    ELSE [pipe EXCEPT !.pc = "route_ui"])

\* checkUIStateForRouteValidity (lines 376-458): uiError is whether the form
\* shows an error text, button is the state of the Preview Route button
checkUIStateForRouteValidity_ignoresButton(p, uiError, button) ==
    IF uiError
    THEN Return([p EXCEPT !.result.error = Err("", "ui error"),
                          !.result.testProgress = "routeTested",
                          !.result.routePass = "false"], 3, FALSE)
    ELSE Return([p EXCEPT !.result.testProgress = "routeTested",
                          !.result.routePass = "true"], 3, TRUE)

checkUIStateForRouteValidity(p, uiError, button) ==
    IF uiError
    THEN Return([p EXCEPT !.result.error = Err("", "ui error"),
                          !.result.testProgress = "routeTested",
                          !.result.routePass = "false"], 3, FALSE)
    ELSE IF button # "enabled"
    THEN Return([p EXCEPT !.result.error =
                             IF button = "disabled"
                             THEN Err("", "Preview Route button is disabled")
                             ELSE Err("", "Preview Route button not found"),
                          !.result.testProgress = "routeTested",
                          !.result.routePass = "false"], 3, FALSE)
    ELSE Return([p EXCEPT !.result.testProgress = "routeTested",
                          !.result.routePass = "true"], 3, TRUE)

\* the UI fallback of processAmountAndMonitorRoute (line 367); what the UI
\* showed is kept as history
PRouteUI(uiError, button, throws) ==
    /\ pipe.pc = "route_ui"
    /\ pipe' = IF throws THEN Catch(Thrown(pipe, 3), Boom)
               ELSE checkUIStateForRouteValidity(
                        [pipe EXCEPT !.ui = [error |-> uiError, button |-> button]],
                        uiError, button)
    /\ RegFrame /\ PipeFrame

\* selectRouteAndGetPreview (lines 462-480): no gate follows it
PSelect(throws) ==
    /\ pipe.pc = "select"
    /\ pipe' = IF throws THEN Catch(Thrown(pipe, 4), Boom)
               ELSE [pipe EXCEPT !.pc = "msgs_reg", !.stage = 4, !.log = Append(@, "ui_select")]
    /\ RegFrame /\ PipeFrame

\* previewAndSubmitRoute, lines 488-493: the msgs monitor
PMsgsRegister ==
    /\ pipe.pc = "msgs_reg"
    /\ PRegister(startMonitoringSpecificPath(Reg, S_msgs, "POST", "msgs",
                                             Opt(TRUE, 5000, TRUE), Now),
                 [pipe EXCEPT !.pc = "preview", !.stage = 5, !.log = Append(@, "reg_msgs")])

\* lines 496-506: Preview Route is clicked, then the wallet confirmation
PClickPreview(clicked, throws) ==
    /\ pipe.pc = "preview"
    /\ pipe' = IF throws THEN Catch(Thrown(pipe, 5), Boom)
               ELSE IF ~clicked
               THEN Return([pipe EXCEPT !.result.error =
                               Err("", "Unable to click Preview Route button")], 5, FALSE)
               ELSE [pipe EXCEPT !.pc = "msgs_call", !.log = Append(@, "ui_preview"),
                                 !.expect = @ \cup {"msgs"}]
    /\ RegFrame /\ PipeFrame

\* lines 510-536
PMsgsDone ==
    /\ pipe.pc = "msgs_wait"
    /\ LET api == waits[1].result
           h == handleMsgsApiResponse(pipe.result, api)
       IN PWaitDone(IF api.success /\ h.abort
                    THEN Return([pipe EXCEPT !.result = h.result], 5, FALSE)
                    ELSE [pipe EXCEPT !.pc = "sim_reg"])

\* lines 542-552: the simulation monitor
PSimRegister ==
    /\ pipe.pc = "sim_reg"
    /\ PRegister(startMonitoringRpcMethod(Reg, "abci_query", S_simulate, "simulate",
                                          Opt(TRUE, 15000, TRUE), Now),
                 [pipe EXCEPT !.pc = "submit", !.log = Append(@, "reg_simulate")])

\* lines 555-565: Submit is clicked, then the wallet confirmation
PClickSubmit(clicked, throws) ==
    /\ pipe.pc = "submit"
    /\ pipe' = IF throws THEN Catch(Thrown(pipe, 5), Boom)
               ELSE IF ~clicked
               THEN Return([pipe EXCEPT !.result.error =
                               Err("", "Unable to click Submit button")], 5, FALSE)
               ELSE [pipe EXCEPT !.pc = "sim_call", !.log = Append(@, "ui_submit"),
                                 !.expect = @ \cup {"simulate"}]
    /\ RegFrame /\ PipeFrame

\* lines 569-596
PSimDone ==
    /\ pipe.pc = "sim_wait"
    /\ LET api == waits[1].result
           h == handleSimulateRpcResponse(pipe.result, api)
       IN PWaitDone(IF api.success /\ h.isError
                    THEN Return([pipe EXCEPT
                                   !.result = [h.result EXCEPT !.testProgress = "SignTested",
                                                               !.routePass = "true",
                                                               !.success = FALSE],
                                   !.simError = (api.data = "code_rawlog")], 5, FALSE)
                    ELSE Return(pipe, 5, TRUE))

\* handleTransactionConfirmation, lines 728-742: the exceptions of this stage
\* go to its own catch block (lines 828-832); a rejection of
\* extractGasFeeInfo goes to its `.catch` and the stage goes on
LocalCatch(p, message) ==
    Return([p EXCEPT !.result.error = Err("Transaction confirmation failed: ", message)],
           6, FALSE)

PGasFee(outcome) ==
    /\ pipe.pc = "confirm"
    /\ pipe' = CASE outcome = "throws" -> LocalCatch(Thrown(pipe, 6), Boom)
                 [] outcome = "rejects" ->
                       [Thrown(pipe, 6) EXCEPT
                          !.pc = "approve_check", !.stage = 6,
                          !.result.error = Err("Failed to extract Gas Fee information: ", Boom),
                          !.result.testProgress = "SignTested", !.result.routePass = "true"]
                 [] outcome = "ok" ->
                       [pipe EXCEPT !.pc = "approve_check", !.stage = 6,
                                    !.result.testProgress = "SignTested",
                                    !.result.routePass = "true"]
    /\ RegFrame /\ PipeFrame

\* lines 745-768: the Approve button is inspected; if it is enabled the
\* broadcast monitor is registered
PApproveCheck(enabled, throws) ==
    /\ pipe.pc = "approve_check"
    /\ IF throws \/ ~enabled
       THEN /\ pipe' = IF throws THEN LocalCatch(Thrown(pipe, 6), Boom)
                       ELSE Return([pipe EXCEPT !.result.error = Err("", "Approve button is disabled"),
                                                !.result.success = FALSE], 6, FALSE)
            /\ RegFrame /\ PipeFrame
       ELSE PRegister(startMonitoringBroadcastRPC(Reg, "broadcast_tx_sync", "broadcast",
                                                  Opt(TRUE, 15000, FALSE), Now),
                      [pipe EXCEPT !.pc = "approve", !.log = Append(@, "reg_broadcast")])

\* lines 771-787: Approve is clicked, then the wallet confirmation
PClickApprove(throws) ==
    /\ pipe.pc = "approve"
    /\ pipe' = IF throws THEN LocalCatch(Thrown(pipe, 6), Boom)
               ELSE [pipe EXCEPT !.pc = "bc_call", !.log = Append(@, "ui_approve"),
                                 !.expect = @ \cup {"broadcast"}]
    /\ RegFrame /\ PipeFrame

\* lines 791-827
PBroadcastDone ==
    /\ pipe.pc = "bc_wait"
    /\ LET api == waits[1].result
           tx == processBroadcastResponse(api)
       IN PWaitDone(IF ~api.success THEN Return(pipe, 6, TRUE)
                    ELSE IF tx.success
                    THEN Return([pipe EXCEPT
                                   !.result.success = TRUE,
                                   !.result.transactionHash =
                                       IF tx.hash # "undefined" THEN tx.hash ELSE @], 6, TRUE)
                    ELSE Return([pipe EXCEPT !.result.error = tx.error,
                                             !.result.success = FALSE], 6, FALSE))

\* the backend answers a request the UI has made
PipeResponse(kind, r) ==
    /\ kind \in pipe.expect
    /\ Step(OnResponse(Reg, r))
    /\ handlers' = handlers \cup {r}
    /\ evCount' = evCount + 1
    /\ pipe' = [pipe EXCEPT !.expect = @ \ {kind}]
    /\ UNCHANGED <<regCount, waitCount, pageClosed>>

PipeNext ==
    \/ PStart
    \/ \E connected, throws \in BOOLEAN : PWallet(connected, throws)
    \/ PGate
    \/ \E navigated, throws \in BOOLEAN : PBridge(navigated, throws)
    \/ PRouteRegister
    \/ \E throws \in BOOLEAN : PEnterAmount(throws)
    \/ PWaitCall
    \/ PRouteDone
    \/ \E uiError, throws \in BOOLEAN, button \in {"enabled", "disabled", "missing"} :
          PRouteUI(uiError, button, throws)
    \/ \E throws \in BOOLEAN : PSelect(throws)
    \/ PMsgsRegister
    \/ \E clicked, throws \in BOOLEAN : PClickPreview(clicked, throws)
    \/ PMsgsDone
    \/ PSimRegister
    \/ \E clicked, throws \in BOOLEAN : PClickSubmit(clicked, throws)
    \/ PSimDone
    \/ \E outcome \in {"ok", "rejects", "throws"} : PGasFee(outcome)
    \/ \E enabled, throws \in BOOLEAN : PApproveCheck(enabled, throws)
    \/ \E throws \in BOOLEAN : PClickApprove(throws)
    \/ PBroadcastDone
    \/ \E kind \in Kinds : \E r \in PipeTraffic(kind, evCount + 1) : PipeResponse(kind, r)
    \/ \E r \in handlers : HandlerResume(r)
    \/ \E i \in DOMAIN listeners : ListenerResolved(i)
    \/ \E i \in DOMAIN listeners, word \in BOOLEAN : ListenerExpire(i, word)
    \/ \E t \in timers : TimerFire(t)
    \/ \E w \in Waiters : WaitTimerFire(w)
    \/ \E w \in Waiters : WaitDecoded(w)

PipeSpec == Init /\ [][PipeNext]_vars

----------------------------------------------------------------------------
(* The response handlers on their own: each is applied once to an
   ApiResponseResult drawn from the forms a capture can take, and the run
   keeps the argument (pipe.seen) next to what the handler made of it
   (pipe.result, pipe.ret). *)

ApiResults(kind) ==
    LET Bodies ==
            CASE kind \in {"route", "msgs"} ->
                    {"none", "null", "clean", "error", "noroutes", "noroutes_code5",
                     "text", "text_error", "text_noroutes", "text_json"}
              [] kind = "simulate" ->
                    {"none", "null", "clean", "toperror", "code_rawlog", "code_message",
                     "code_only", "b64_code", "alt_code", "kw_rawlog", "kw_log",
                     "kw_fragment", "kw_fail", "noresult", "text"}
              [] kind = "broadcast" ->
                    {"none", "null", "noresult", "code0", "code0_hash", "codeN",
                     "codeN_nolog"}
    IN { [NoResult EXCEPT !.success = s, !.status = st, !.data = d,
                          !.error = IF s THEN "none" ELSE "message",
                          !.timedOut = IF s THEN "false" ELSE "true"] :
            s \in BOOLEAN, st \in {200, 201, 404, 500}, d \in Bodies }

Handle(kind, api) ==
    /\ pipe.pc = "idle"
    /\ LET p == [pipe EXCEPT !.pc = "handled", !.seen[kind] = Seen(api),
                             !.log = <<kind>>]
       IN pipe' =
            CASE kind = "route" ->
                    LET h == handleRouteApiResponse(pipe.result, api)
                    IN [p EXCEPT !.result = h.result, !.ret = ~h.abort]
              [] kind = "msgs" ->
                    LET h == handleMsgsApiResponse(pipe.result, api)
                    IN [p EXCEPT !.result = h.result, !.ret = ~h.abort]
              [] kind = "simulate" ->
                    LET h == handleSimulateRpcResponse(pipe.result, api)
                    IN [p EXCEPT !.result = h.result, !.ret = ~h.isError]
              [] kind = "broadcast" ->
                    LET tx == processBroadcastResponse(api)
                    IN [p EXCEPT !.result.success = tx.success,
                                 !.result.transactionHash = tx.hash,
                                 !.result.error = tx.error, !.ret = tx.success]
    /\ UNCHANGED <<regVars, waits, handlers, regCount, evCount, waitCount, pageClosed>>

HandlerNext ==
    \E kind \in Kinds : \E api \in ApiResults(kind) : Handle(kind, api)

HandlerSpec == Init /\ [][HandlerNext]_vars

----------------------------------------------------------------------------
(* Properties of the registry *)

RegisteredCtrls == {monitorPromises[id] : id \in DOMAIN monitorPromises}

\* C1: a monitor's result future is settled at most once: the code never calls
\* resolve/reject on a controller a second time, and no controller is marked
\* both resolved and rejected, whatever the interleaving of the global
\* listener, the one-shot listener, the registration timer and cancellation.
C1_SettledAtMostOnce ==
    \A c \in DOMAIN controllers :
        /\ controllers[c].settles <= 1
        /\ ~(controllers[c].isResolved /\ controllers[c].isRejected)
        /\ controllers[c].settles = 1 <=>
              (controllers[c].isResolved \/ controllers[c].isRejected)

\* a registered monitor was resolved by a response and its registration
\* timer fired afterwards (the timer is gone though the monitor was not
\* cleaned up)
C1_Witness ==
    \E id \in DOMAIN monitorPromises :
        LET c == monitorPromises[id]
        IN /\ controllers[c].isResolved
           /\ controllers[c].hasTimer
           /\ \A t \in timers : t.ctrl # c

Returning(w) == waits[w].pc \in {"waiting", "decoding"} /\ waits'[w].pc = "returned"

\* C2: when waitForResponse(id) returns for a registered id (captured
\* response, timeout or error), id is in none of the registry maps, and the
\* return removed no other monitor.
C2_WaitRemovesMonitor ==
    [][\A w \in Waiters : Returning(w) =>
          /\ waits[w].id \notin DOMAIN monitorPromises'
          /\ waits[w].id \notin DOMAIN monitorPaths'
          /\ waits[w].id \notin DOMAIN monitorOptions'
          /\ waits[w].id \notin DOMAIN monitorStartTimes'
          /\ waits[w].id \notin DOMAIN monitorMethods'
          /\ pageClosed' = pageClosed =>
                DOMAIN monitorPromises' =
                    DOMAIN monitorPromises \ {waits[v].id : v \in {u \in Waiters : Returning(u)}}
      ]_vars

\* a wait on a monitor that was still registered has returned by its own timer
C2_Witness ==
    \E w \in Waiters : waits[w].pc = "returned" /\ waits[w].result.cause = "waitTimer"

\* C4: a wait ended by the monitor's timer or by the wait's own timer returns
\* {success: false, data: null, error, timedOut: true}; a wait ended by a
\* non-timeout error (the page closed) returns success false, timedOut false.
C4_TimeoutIsReported ==
    \A w \in Waiters : waits[w].pc = "returned" =>
        /\ waits[w].result.cause \in {"regTimer", "waitTimer"} =>
              /\ waits[w].result.success = FALSE
              /\ waits[w].result.data = "null"
              /\ waits[w].result.error # "none"
              /\ waits[w].result.timedOut = "true"
        /\ waits[w].result.cause = "closed" =>
              /\ waits[w].result.success = FALSE
              /\ waits[w].result.timedOut = "false"

\* a wait has returned because the monitor's registration timer rejected it
C4_Witness ==
    \E w \in Waiters : waits[w].pc = "returned" /\ waits[w].result.cause = "regTimer"

PendingWithTimeout(id) ==
    /\ Has(monitorPromises, id)
    /\ monitorOptions[id].timeout > 0
    /\ Pending(controllers[monitorPromises[id]])

\* C3: a monitor registered with timeout > 0 by any of the four
\* startMonitoring* methods leaves the Pending state with no wait and no
\* cancel, and when its timer is what rejects it the error is the timeout
\* error marked isTimeout.
C3_TimerEndsPending ==
    /\ \A id \in Ids : PendingWithTimeout(id) ~> ~PendingWithTimeout(id)
    /\ [][\A id \in Ids :
            (/\ PendingWithTimeout(id)
             /\ \E t \in timers \ timers' : t.ctrl = monitorPromises[id]
             /\ Has(monitorPromises', id)
             /\ monitorPromises'[id] = monitorPromises[id])
            => LET c == controllers'[monitorPromises[id]]
               IN c.isRejected /\ c.value.err.cause = "regTimer" /\ c.value.err.isTimeout
       ]_vars

\* a registered monitor nobody waited on was rejected by its own timer
C3_Witness ==
    \E id \in DOMAIN monitorPromises :
        LET c == controllers[monitorPromises[id]]
        IN /\ c.isRejected
           /\ c.value.err.cause = "regTimer"
           /\ \A w \in Waiters : waits[w].pc = "idle"

Others(f, id) == [x \in (DOMAIN f) \ {id} |-> f[x]]

\* C5: cancelMonitor(id) twice leaves the registry as one call leaves it, for
\* every id, and a call settles no future, touches no log and no other
\* monitor; cancelAllMonitors() twice equals once and leaves no monitor.
C5_CancelIdempotent ==
    /\ \A id \in Ids :
          LET R1 == cancelMonitor(Reg, id)
          IN /\ cancelMonitor(R1, id) = R1
             /\ R1.controllers = controllers
             /\ R1.capturedResponses = capturedResponses
             /\ R1.listeners = listeners
             /\ id \notin DOMAIN R1.monitorPromises
             /\ Others(R1.monitorPromises, id) = Others(monitorPromises, id)
             /\ Others(R1.monitorPaths, id) = Others(monitorPaths, id)
             /\ Others(R1.monitorOptions, id) = Others(monitorOptions, id)
             /\ Others(R1.monitorMethods, id) = Others(monitorMethods, id)
             /\ Others(R1.monitorStartTimes, id) = Others(monitorStartTimes, id)
    /\ LET RA == cancelAllMonitors(Reg)
       IN /\ cancelAllMonitors(RA) = RA
          /\ DOMAIN RA.monitorPromises = {}
          /\ RA.controllers = controllers
          /\ RA.capturedResponses = capturedResponses

\* a pending monitor was cancelled while a call was waiting on it, and another
\* monitor is still registered
C5_Witness ==
    /\ \E w \in Waiters : waits[w].pc = "waiting" /\ waits[w].cancelSeq >= 0
    /\ DOMAIN monitorPromises # {}

\* C6: a waitForResponse(id) in progress when its monitor is cancelled does
\* not afterwards return success with a response observed after the
\* cancellation.
C6_CancelledIsTerminal ==
    \A w \in Waiters :
        (waits[w].pc = "returned" /\ waits[w].cancelSeq >= 0 /\ waits[w].result.success)
            => waits[w].result.seq <= waits[w].cancelSeq

----------------------------------------------------------------------------
(* Properties of the pipeline *)

\* C7: during one performBridgeOperation, finalization included, no
\* assignment moves result.testProgress back along
\* untested -> routeTested -> SignTested.
C7_ProgressMonotonic ==
    [][Rank(pipe'.result.testProgress) >= Rank(pipe.result.testProgress)]_vars

\* C8: when the simulation monitor captured a response with a non-zero code
\* and a raw_log, the pipeline stops before transaction confirmation and the
\* returned result has testProgress SignTested, success false and an error
\* that contains the raw_log.
C8_SimulationErrorResult ==
    (pipe.pc = "done" /\ pipe.simError) =>
        /\ pipe.stage = 5
        /\ pipe.result.testProgress = "SignTested"
        /\ pipe.result.success = FALSE
        /\ pipe.result.error.text = RawLog

\* C9: when a collaborator call threw at some stage, the call returns a
\* result: the error screenshot was attempted, finalizeResult ran, error is
\* the exception's message, success is false, and testProgress and routePass
\* are the values held when the exception occurred.
C9_ExceptionResult ==
    (pipe.pc = "done" /\ pipe.thrown.stage # 0) =>
        /\ pipe.errorShot
        /\ pipe.finalized = 1
        /\ pipe.result.error = Err("", Boom)
        /\ pipe.result.success = FALSE
        /\ pipe.result.testProgress = pipe.thrown.testProgress
        /\ pipe.result.routePass = pipe.thrown.routePass

\* the UI actions and monitor registrations of a run, in the order of the
\* stages, and the stage each belongs to
StageOrder ==
    <<"wallet", "bridge", "reg_route", "ui_amount", "ui_select", "reg_msgs", "ui_preview",
      "reg_simulate", "ui_submit", "reg_broadcast", "ui_approve">>

StageOf(e) ==
    CASE e = "wallet" -> 1 [] e = "bridge" -> 2 [] e \in {"reg_route", "ui_amount"} -> 3
      [] e = "ui_select" -> 4
      [] e \in {"reg_msgs", "ui_preview", "reg_simulate", "ui_submit"} -> 5
      [] e \in {"reg_broadcast", "ui_approve"} -> 6

\* C10: the stages run in the fixed order; once a stage has reported failure
\* no UI action and no registration of a later stage is made, and the
\* returned result has error set and success false.
C10_StagesInOrder ==
    /\ Len(pipe.log) <= Len(StageOrder)
    /\ pipe.log = SubSeq(StageOrder, 1, Len(pipe.log))
    /\ pipe.failed # 0 =>
          /\ pipe.pc \in {"gate", "done"}
          /\ \A i \in 1..Len(pipe.log) : StageOf(pipe.log[i]) <= pipe.failed
          /\ pipe.result.error # NoError
          /\ pipe.pc = "done" => pipe.result.success = FALSE

\* the route preview/submission stage reported failure after Submit was
\* clicked, and the run has returned
C10_Witness ==
    /\ pipe.pc = "done"
    /\ pipe.failed = 5
    /\ Len(pipe.log) = 9

\* C11: on every path through performBridgeOperation finalizeResult runs
\* exactly once (it is what ends the run, and a run that has not ended can
\* always take a step), and the returned record has
\* timing.endTime >= timing.startTime and
\* timing.duration = timing.endTime - timing.startTime.
C11_FinalizedOnce ==
    /\ pipe.finalized = (IF pipe.pc = "done" THEN 1 ELSE 0)
    /\ pipe.pc # "done" => ENABLED PipeNext
    /\ pipe.pc = "done" =>
          /\ pipe.result.timing.startTime > 0
          /\ pipe.result.timing.endTime >= pipe.result.timing.startTime
          /\ pipe.result.timing.duration =
                pipe.result.timing.endTime - pipe.result.timing.startTime

\* a run that ended in the catch block after time had passed
C11_Witness ==
    /\ pipe.pc = "done"
    /\ pipe.errorShot
    /\ pipe.result.timing.duration > 0

\* C12: for each monitored step (route, messages, simulation, broadcast) the
\* UI action that triggers the traffic (enter amount, click Preview Route,
\* click Submit, click Approve) is performed only when the step's monitor has
\* been registered in this run and is in the registry.
C12_RegisteredBeforeAction ==
    [][\A k \in Kinds :
          LET action == [route |-> "ui_amount", msgs |-> "ui_preview",
                         simulate |-> "ui_submit", broadcast |-> "ui_approve"]
              registration == [route |-> "reg_route", msgs |-> "reg_msgs",
                               simulate |-> "reg_simulate", broadcast |-> "reg_broadcast"]
          IN (pipe'.log = Append(pipe.log, action[k])) =>
                /\ \E i \in 1..Len(pipe.log) : pipe.log[i] = registration[k]
                /\ Has(monitorPromises, k)
                /\ Has(monitorPromises', k)
      ]_vars

\* Approve has been clicked, the last of the four triggering actions, while
\* the broadcast monitor is registered
C12_Witness ==
    /\ Len(pipe.log) = 11
    /\ pipe.log[11] = "ui_approve"
    /\ Has(monitorPromises, "broadcast")

\* C13: when the wait on the route monitor ends without a captured response
\* the route verdict comes from the UI: with no error text and the Preview
\* Route button found and enabled the stage sets routePass = true,
\* testProgress = routeTested, no error, and the pipeline goes on to the next
\* stage; otherwise it sets routePass = false, testProgress = routeTested and
\* an error (the UI text, button disabled, or button not found) and stops.
C13_RouteUiFallback ==
    [][LET valid == ~pipe'.ui.error /\ pipe'.ui.button = "enabled"
           res == pipe'.result
       IN /\ (pipe.pc = "route_wait" /\ pipe'.pc # "route_wait" /\ ~pipe'.seen["route"].success)
                => pipe'.pc = "route_ui" /\ pipe'.result = pipe.result
          /\ (pipe.pc = "route_ui" /\ pipe'.pc = "gate") =>
                /\ ~pipe.seen["route"].success
                /\ res.testProgress = "routeTested"
                /\ pipe'.ret = valid
                /\ res.routePass = (IF valid THEN "true" ELSE "false")
                /\ res.error = (IF valid THEN pipe.result.error
                                ELSE IF pipe'.ui.error THEN Err("", "ui error")
                                ELSE IF pipe'.ui.button = "disabled"
                                THEN Err("", "Preview Route button is disabled")
                                ELSE Err("", "Preview Route button not found"))
          /\ (pipe.pc = "gate" /\ pipe.stage = 3 /\ pipe.ui.button # "unseen") =>
                pipe'.pc = (IF ~pipe.ui.error /\ pipe.ui.button = "enabled"
                            THEN "select" ELSE "done")
      ]_vars

\* the route wait timed out, the UI showed a valid route, and the run went on
\* to select the route
C13_Witness ==
    /\ pipe.seen["route"].timedOut = "true"
    /\ pipe.ui.button = "enabled"
    /\ pipe.result.routePass = "true"
    /\ pipe.pc = "msgs_reg"

\* C14: if the wallet is still not connected after the connection attempt the
\* run aborts: no monitor is registered, nothing of the bridge configuration
\* or of a later stage is done, and the returned result has
\* testProgress = untested, success = false and
\* error = "Wallet connection failed".
C14_WalletHardStop ==
    pipe.failed = 1 =>
        /\ pipe.pc \in {"gate", "done"}
        /\ pipe.log = <<"wallet">>
        /\ regCount = 0
        /\ DOMAIN monitorPromises = {}
        /\ pipe.result.error = Err("", "Wallet connection failed")
        /\ pipe.pc = "done" =>
              /\ pipe.result.testProgress = "untested"
              /\ pipe.result.success = FALSE
              /\ pipe.finalized = 1

\* the run has returned after the wallet stage reported failure
C14_Witness ==
    pipe.pc = "done" /\ pipe.failed = 1

\* C15: when the wait on the messages, simulation or broadcast monitor times
\* out with no match, that stage is treated as failed: no later stage runs
\* and the returned result has success = false with error set.
C15_TimeoutIsStagedFailure ==
    \A k \in {"msgs", "simulate", "broadcast"} :
        (pipe.seen[k].timedOut = "true" /\ pipe.pc \in {"gate", "done"} /\ pipe.thrown.stage = 0) =>
            /\ pipe.failed = (IF k = "broadcast" THEN 6 ELSE 5)
            /\ k # "broadcast" => pipe.stage = 5
            /\ pipe.result.error # NoError
            /\ pipe.pc = "done" => pipe.result.success = FALSE

C17_BroadcastHash ==
    (pipe.seen["broadcast"].success /\ pipe.seen["broadcast"].data = "code0_hash") =>
        /\ pipe.pc \in {"gate", "done"}
        /\ pipe.result.transactionHash = Hash
        /\ pipe.result.success = TRUE

\* the run has returned with the hash of the broadcast transaction
C17_Witness ==
    /\ pipe.pc = "done"
    /\ pipe.seen["broadcast"].data = "code0_hash"
    /\ pipe.result.transactionHash = Hash

\* C18: when the route monitor captured a response with status 201 and a body
\* free of "error"/"Error", handling it sets routePass = true and
\* testProgress = routeTested, sets no error, and the pipeline continues to
\* the route-submission stage.
C18_RouteAccepted ==
    [][LET clean(p) == /\ p.seen["route"].success
                       /\ p.seen["route"].status = 201
                       /\ p.seen["route"].data = "clean"
       IN /\ (pipe.pc = "route_wait" /\ clean(pipe')) =>
                /\ pipe'.pc = "gate"
                /\ pipe'.ret
                /\ pipe'.failed = 0
                /\ pipe'.result.routePass = "true"
                /\ pipe'.result.testProgress = "routeTested"
                /\ pipe'.result.error = NoError
          /\ (pipe.pc = "gate" /\ pipe.stage = 3 /\ clean(pipe)) =>
                pipe'.pc = "select" /\ pipe'.result = pipe.result
      ]_vars

\* after a clean 201 route response the run is in the route-submission stage
C18_Witness ==
    /\ pipe.seen["route"].status = 201
    /\ pipe.seen["route"].data = "clean"
    /\ pipe.pc = "preview"
    /\ pipe.result.routePass = "true"
    /\ pipe.result.error = NoError

\* C19: a monitor registered by startMonitoringRpcMethod(M, P) is resolved
\* only by a response to a POST request whose JSON body has method = M and
\* params.path matching P under the monitor's exact/partial policy and whose
\* response id equals the request id.
C19_RpcResolvedOnlyByRpc ==
    \A id \in DOMAIN monitorMethods :
        (/\ Has(monitorPromises, id)
         /\ Has(monitorPaths, id)
         /\ controllers[monitorPromises[id]].isResolved) =>
            RpcPredicate(monitorMethods[id], monitorPaths[id],
                         OptionsOf(Reg, id).partialMatch, TRUE,
                         controllers[monitorPromises[id]].value.resp)

\* C20: a path monitor registered with a non-empty HTTP method filter is
\* resolved only by a response whose request method equals the filter (the
\* filter is read from the monitor's one-shot listener, the only place the
\* registration keeps it).
C20_MethodFilter ==
    \A i \in DOMAIN listeners :
        LET l == listeners[i]
        IN (/\ l.owner = "reg" /\ l.kind = "path" /\ l.method # ""
            /\ Has(monitorPromises, l.id)
            /\ monitorPaths[l.id] = l.path
            /\ OptionsOf(Reg, l.id).oneTime
            /\ controllers[monitorPromises[l.id]].isResolved) =>
               controllers[monitorPromises[l.id]].value.resp.method = l.method

\* C21: first match wins for a one-time monitor: the response that resolves
\* it (what waitForResponse returns) is the first matching response observed
\* after registration.  The one-shot listener armed by the registration holds
\* the first response after registration that satisfies the monitor's rule;
\* the monitor is never resolved by a response observed later than that one.
C21_FirstMatchWins ==
    \A t \in timers :
        (/\ t.lsn # 0
         /\ listeners[t.lsn].state = "reading"
         /\ controllers[t.ctrl].isResolved) =>
            controllers[t.ctrl].value.resp.seq <= listeners[t.lsn].out.resp.seq

\* C22: under any interleaving of the response handlers, the entries of every
\* monitor's private response log are in the same relative order as in the
\* global 'all' log, which records the responses in the order the page
\* emitted them (increasing seq).
C22_PrivateLogInOrder ==
    \A id \in DOMAIN capturedResponses :
        \A i, j \in DOMAIN capturedResponses[id] :
            i < j => capturedResponses[id][i].seq < capturedResponses[id][j].seq

\* C23: when performBridgeOperation has returned (success, failed gate or
\* exception path) the registry holds no active monitor: every monitor the
\* run registered was consumed by a wait or cancelled.
C23_NoMonitorLeftAtReturn ==
    pipe.pc = "done" => getActiveMonitorsCount(Reg) = 0

\* C24: every timer armed on behalf of a monitor is released when the monitor
\* ends: once waitForResponse(id) has returned or cancelMonitor(id) /
\* cancelAllMonitors() has completed, no registration timer and no one-shot
\* response listener created for that monitor is still armed (each armed
\* timer and listener belongs to a monitor that is in the registry).
C24_TimersReleased ==
    /\ \A t \in timers : Has(monitorPromises, t.id)
    /\ \A i \in DOMAIN listeners :
          (listeners[i].owner = "reg" /\ listeners[i].state \in {"armed", "reading"})
              => Has(monitorPromises, listeners[i].id)

\* C25: pathMatches(target, rule, options) is true exactly when both strings
\* are non-empty and either partialMatch is set and target contains rule as a
\* substring, or partialMatch is not set and target equals rule; an empty
\* target or rule never matches in either mode; the result depends only on
\* the arguments: whatever was matched before, the responses in a monitor's
\* private log are exactly the observed responses whose URL the rule accepts.
C25_PathMatches ==
    LET Contains(t, r) ==
            \E i \in 0..Len(t) : \E j \in i..Len(t) : SubSeq(t, i + 1, j) = r
        Expected(t, r, partial) ==
            /\ t # Empty
            /\ r # Empty
            /\ IF partial THEN Contains(t, r) ELSE t = r
        all == capturedResponses["all"]
    IN \A id \in DOMAIN monitorPaths :
          LET mine == capturedResponses[id]
              accepted == {k \in DOMAIN all :
                              Expected(all[k].url, monitorPaths[id],
                                       monitorOptions[id].partialMatch)}
          IN /\ \A k \in DOMAIN all :
                   pathMatches(all[k].url, monitorPaths[id], monitorOptions[id])
                       = (k \in accepted)
             /\ {mine[k] : k \in DOMAIN mine} = {all[k] : k \in accepted}

\* the partial rule "r" has accepted the URL "hr", which contains it and is
\* not equal to it, after it had rejected another URL
C25_Witness ==
    /\ Has(monitorPaths, "a") /\ monitorPaths["a"] = S_route
    /\ Len(capturedResponses["all"]) = 2
    /\ capturedResponses["a"] = <<[seq |-> 2, url |-> U_route, status |-> 200]>>

\* C26: the captured-traffic logs are append-only: across every traffic event
\* and every operation, each log (the global 'all' log and each monitor's
\* private log) is an extension of its earlier contents.
C26_LogsAppendOnly ==
    [][\A id \in DOMAIN capturedResponses :
          /\ id \in DOMAIN capturedResponses'
          /\ Len(capturedResponses'[id]) >= Len(capturedResponses[id])
          /\ SubSeq(capturedResponses'[id], 1, Len(capturedResponses[id]))
                = capturedResponses[id]
      ]_vars

\* C27: no match is lost between registration and wait: when
\* waitForResponse(id) is called on a registered monitor (one-time or
\* continuous) that has not timed out and whose private log already holds a
\* matching response observed since its registration, the call has a
\* captured response in hand (it returns success once the body is decoded).
C27_NoMatchLost ==
    [][\A w \in Waiters :
          LET id == waits'[w].id
          IN (/\ waits[w].pc = "idle"
              /\ waits'[w].pc # "idle"
              /\ Has(monitorPromises, id)
              /\ capturedResponses[id] # <<>>
              /\ ~controllers[monitorPromises[id]].isRejected)
             => /\ waits'[w].pc = "decoding"
                /\ waits'[w].out.tag = "resp"
      ]_vars

\* C28: waitForResponse(id, t) with t > 0 always returns a result to its
\* caller: a call in progress eventually returns, whether the monitor is
\* resolved by a match, rejected by its timer or by a listener error, or
\* removed by cancelMonitor / cancelAllMonitors / page close meanwhile; what
\* it returns is a result record (a success with the response, or a failure
\* carrying an error), never an exception.
C28_WaitAlwaysReturns ==
    /\ \A w \in Waiters :
          (waits[w].pc \in {"waiting", "decoding"}) ~> (waits[w].pc = "returned")
    /\ [](\A w \in Waiters :
            /\ waits[w].pc \in {"idle", "waiting", "decoding", "returned"}
            /\ waits[w].pc = "returned" =>
                  \/ waits[w].result.success /\ waits[w].result.error = "none"
                  \/ ~waits[w].result.success /\ waits[w].result.error # "none")

\* a call whose monitor was cancelled while it was waiting has returned
C28_Witness ==
    \E w \in Waiters :
        /\ waits[w].pc = "returned"
        /\ waits[w].cancelSeq >= 0
        /\ waits[w].result.cause = "waitTimer"

\* C29: waitForResponse on an id that is not in the registry (never
\* registered, consumed by an earlier wait, or cancelled) returns at once
\* with success = false, data = null, responseTime = 0 and the error
\* "Monitor <id> does not exist", and leaves the registry and all logs
\* unchanged; so it never returns a response again that an earlier wait on
\* the id returned.
C29_WaitOnUnknownId ==
    [][\A w \in Waiters :
          (/\ waits[w].pc = "idle"
           /\ waits'[w].pc # "idle"
           /\ ~Has(monitorPromises, waits'[w].id))
          => /\ waits'[w].pc = "returned"
             /\ waits'[w].result.success = FALSE
             /\ waits'[w].result.data = "null"
             /\ waits'[w].result.responseTime = 0
             /\ waits'[w].result.error = "Monitor does not exist"
             /\ waits'[w].result.seq = 0
             /\ UNCHANGED regVars
             /\ UNCHANGED handlers
      ]_vars

\* a second wait on an id whose monitor an earlier wait consumed (by its own
\* timeout) has returned the does-not-exist result
C29_Witness ==
    \E v, w \in Waiters :
        /\ v < w
        /\ waits[v].pc = "returned" /\ waits[w].pc = "returned"
        /\ waits[v].id = waits[w].id
        /\ waits[v].result.cause = "waitTimer"
        /\ waits[w].result.error = "Monitor does not exist"

\* C30: the result performBridgeOperation returns has success = true only if
\* a broadcast RPC response with result.code = 0 was captured during the
\* run; a run whose broadcast monitor timed out or captured nothing never
\* reports success = true.
C30_SuccessNeedsBroadcast ==
    (pipe.pc = "done" /\ pipe.result.success) =>
        /\ pipe.seen["broadcast"].success
        /\ pipe.seen["broadcast"].data \in {"code0", "code0_hash"}

C32_RoutePassKept ==
    (/\ pipe.pc = "done"
     /\ \E i \in DOMAIN pipe.log : pipe.log[i] = "ui_select") =>
        pipe.result.routePass = "true"

\* C33: a monitor is settled only by its own registration: when an id is
\* registered again, a timer armed by the earlier registration never rejects
\* the later monitor (a controller that goes from pending to rejected with
\* the registration-timeout error is the controller the fired timer was
\* armed for).
C33_OwnRegistrationOnly ==
    [][\A c \in DOMAIN controllers :
          (/\ Pending(controllers[c])
           /\ controllers'[c].isRejected
           /\ controllers'[c].value.err.cause = "regTimer")
          => \E t \in timers \ timers' : t.ctrl = c
      ]_vars

\* C34: removing a monitor (by wait consumption, cancelMonitor or
\* cancelAllMonitors) leaves its captured log intact, and after removal the
\* monitor is no longer matched: no later traffic event is appended to its
\* private log or settles its future, while the global 'all' log keeps
\* recording every response.
C34_RemovedMonitorIsFrozen ==
    [][/\ \A id \in DOMAIN capturedResponses \ {"all"} :
             (~Has(monitorPromises', id)) =>
                 /\ Has(capturedResponses', id)
                 /\ capturedResponses'[id] = capturedResponses[id]
                 /\ ~Has(monitorPaths', id)
       /\ \A c \in DOMAIN controllers :
             (c \notin RegisteredCtrls /\ c \notin {monitorPromises'[id] : id \in DOMAIN monitorPromises'})
                 => ~(Pending(controllers[c]) /\ ~Pending(controllers'[c]))
       /\ evCount' = evCount + 1 =>
             Len(capturedResponses'["all"]) = Len(capturedResponses["all"]) + 1
      ]_vars

\* a monitor that had logged a response was cancelled, and a response
\* observed afterwards is in the 'all' log only
C34_Witness ==
    \E id \in DOMAIN capturedResponses \ {"all"} :
        /\ ~Has(monitorPromises, id)
        /\ Len(capturedResponses[id]) = 1
        /\ Len(capturedResponses["all"]) = 2
        /\ capturedResponses["all"][2].url = capturedResponses[id][1].url


\* C35: a Route or Messages response with status 201 whose body contains
\* "error" or "Error" is a failure whatever the body's form (decoded object
\* or plain text): error is the stringified body and the handler tells the
\* pipeline to abort; for Route also routePass = false and testProgress =
\* routeTested.
C35_ErrorWordAborts ==
    \A kind \in {"route", "msgs"} :
        (/\ pipe.pc = "handled" /\ pipe.log = <<kind>>
         /\ pipe.seen[kind].status = 201
         /\ HasErrorWord(pipe.seen[kind].data)) =>
            /\ ~pipe.ret
            /\ pipe.result.error = Err("", pipe.seen[kind].data)
            /\ kind = "route" =>
                  /\ pipe.result.routePass = "false"
                  /\ pipe.result.testProgress = "routeTested"


\* C36 as stated: for a Route response with a status other than 201 the
\* handler reports failure (abort, routePass = false, testProgress =
\* routeTested) and error is "no routes found" when the status is 404 or the
\* capture is unsuccessful and the body carries that message (in object,
\* {code: 5} or string form); otherwise the re-stringified JSON of a string
\* body or the JSON string of an object body; otherwise the generic
\* status-code message.
C36_RouteErrorAsStated ==
    LET api == pipe.seen["route"]
        normalized == /\ api.status = 404 \/ ~api.success
                      /\ api.data \in {"noroutes", "noroutes_code5", "text_noroutes"}
    IN (pipe.pc = "handled" /\ pipe.log = <<"route">> /\ api.status # 201) =>
          /\ ~pipe.ret
          /\ pipe.result.routePass = "false"
          /\ pipe.result.testProgress = "routeTested"
          /\ pipe.result.error =
                IF normalized THEN Err("", "no routes found")
                ELSE IF api.data = "text_json" THEN Err("", "json")
                ELSE IF api.data \in {"clean", "error", "noroutes", "noroutes_code5"}
                THEN Err("", api.data)
                ELSE Err("Route API request failed, status code: ", "status")

\* C36 amended: as above, and a string body that is not JSON text is used as
\* the error unchanged; the generic status-code message is used only when the
\* response has no body. Nothing but (404 or unsuccessful capture) with the
\* message is normalized to "no routes found".
C36_RouteErrorDerivation ==
    LET api == pipe.seen["route"]
        normalized == /\ api.status = 404 \/ ~api.success
                      /\ api.data \in {"noroutes", "noroutes_code5", "text_noroutes"}
    IN (pipe.pc = "handled" /\ pipe.log = <<"route">> /\ api.status # 201) =>
          /\ ~pipe.ret
          /\ pipe.result.routePass = "false"
          /\ pipe.result.testProgress = "routeTested"
          /\ pipe.result.error =
                IF normalized THEN Err("", "no routes found")
                ELSE IF api.data = "text_json" THEN Err("", "json")
                ELSE IF api.data \in {"clean", "error", "noroutes", "noroutes_code5"}
                THEN Err("", api.data)
                ELSE IF api.data \in {"text", "text_error", "text_noroutes"}
                THEN Err("", api.data)
                ELSE Err("Route API request failed, status code: ", "status")
          /\ pipe.result.error = Err("", "no routes found") => normalized

\* a 500 response captured successfully whose plain-text body contains
\* "no routes found": the error is the text itself
C36_Witness ==
    /\ pipe.pc = "handled" /\ pipe.log = <<"route">>
    /\ pipe.seen["route"].status = 500 /\ pipe.seen["route"].success
    /\ pipe.seen["route"].data = "text_noroutes"
    /\ pipe.result.error = Err("", "text_noroutes")
    /\ ~pipe.ret


\* C37: processBroadcastResponse reports failure when the capture was
\* unsuccessful or has no data, and failure "No result field in response"
\* when the body has no result; otherwise it reports success exactly when
\* result.code is 0 (with result.hash when present), and for any other code a
\* failure whose error carries result.log, or "Unknown error" when there is
\* no log; it raises no exception.
C37_BroadcastVerdict ==
    LET api == pipe.seen["broadcast"]
        res == pipe.result
    IN (pipe.pc = "handled" /\ pipe.log = <<"broadcast">>) =>
          /\ pipe.thrown = NoThrow
          /\ pipe.ret = res.success
          /\ IF ~api.success \/ api.data \in {"none", "null"}
             THEN ~res.success /\ res.error # NoError
             ELSE IF api.data = "noresult"
             THEN ~res.success /\ res.error = Err("", "No result field in response")
             ELSE /\ res.success <=> api.data \in {"code0", "code0_hash"}
                  /\ res.success => res.error = NoError
                  /\ api.data = "code0_hash" => res.transactionHash = Hash
                  /\ api.data = "code0" => res.transactionHash = "undefined"
                  /\ api.data = "codeN" =>
                        res.error = Err("Transaction failed (code=): ", "log")
                  /\ api.data = "codeN_nolog" =>
                        res.error = Err("Transaction failed (code=): ", "Unknown error")

\* a captured broadcast answer with a non-zero code and no log
C37_Witness ==
    /\ pipe.pc = "handled" /\ pipe.log = <<"broadcast">>
    /\ pipe.seen["broadcast"].success /\ pipe.seen["broadcast"].data = "codeN_nolog"
    /\ ~pipe.result.success
    /\ pipe.result.error.text = "Unknown error"


\* C38 as stated: handleSimulateRpcResponse reports an error (returns true
\* and sets result.error) exactly when the body has a top-level error, or the
\* parsed result (result, decoded when it is a string, or response.result)
\* has a defined non-zero code (message: raw_log, else message, else the
\* code), or the stringified result contains "error" or "fail" (message:
\* raw_log, else log, else an extracted error fragment); with no data, or
\* code 0 and no keyword, it reports no error and leaves result.error alone.
C38_SimulateAsStated ==
    LET api == pipe.seen["simulate"]
        d == api.data
        msg(text) == Err("Transaction simulation failed: ", text)
        top == d = "toperror"
        code == d \in {"code_rawlog", "code_message", "code_only", "b64_code", "alt_code"}
        word == d \in {"kw_rawlog", "kw_log", "kw_fragment", "kw_fail"}
    IN (pipe.pc = "handled" /\ pipe.log = <<"simulate">>) =>
          /\ ~pipe.ret <=> (top \/ code \/ word)
          /\ pipe.ret => pipe.result.error = NoError
          /\ top => pipe.result.error = msg("error")
          /\ d \in {"code_rawlog", "b64_code", "alt_code", "kw_rawlog"} =>
                pipe.result.error = msg(RawLog)
          /\ d = "code_message" => pipe.result.error = msg("message")
          /\ d = "code_only" => pipe.result.error = msg("Code: ")
          /\ d = "kw_log" => pipe.result.error = msg("log")
          /\ d \in {"kw_fragment", "kw_fail"} => pipe.result.error = msg("fragment")

\* C38 amended: as above, and when the stringified result contains a keyword
\* but has no raw_log, no log and no fragment "error...}" to extract, the
\* message is "Unknown error".
C38_SimulateVerdict ==
    LET api == pipe.seen["simulate"]
        d == api.data
        msg(text) == Err("Transaction simulation failed: ", text)
        top == d = "toperror"
        code == d \in {"code_rawlog", "code_message", "code_only", "b64_code", "alt_code"}
        word == d \in {"kw_rawlog", "kw_log", "kw_fragment", "kw_fail"}
    IN (pipe.pc = "handled" /\ pipe.log = <<"simulate">>) =>
          /\ ~pipe.ret <=> (top \/ code \/ word)
          /\ pipe.ret => pipe.result.error = NoError
          /\ top => pipe.result.error = msg("error")
          /\ d \in {"code_rawlog", "b64_code", "alt_code", "kw_rawlog"} =>
                pipe.result.error = msg(RawLog)
          /\ d = "code_message" => pipe.result.error = msg("message")
          /\ d = "code_only" => pipe.result.error = msg("Code: ")
          /\ d = "kw_log" => pipe.result.error = msg("log")
          /\ d = "kw_fragment" => pipe.result.error = msg("fragment")
          /\ d = "kw_fail" => pipe.result.error = msg("Unknown error")

\* a result with code 0 whose text contains "fail" and nothing to extract
C38_Witness ==
    /\ pipe.pc = "handled" /\ pipe.log = <<"simulate">>
    /\ pipe.seen["simulate"].data = "kw_fail"
    /\ ~pipe.ret
    /\ pipe.result.error.text = "Unknown error"


\* C39: when the page emits its close event every active monitor is removed
\* from the registry and the timer of its registration is cleared; the
\* registry stays empty until something is registered again, and no
\* registration timer later rejects a monitor the close removed.
C39_CloseCancelsAll ==
    [][/\ (~pageClosed /\ pageClosed') =>
             /\ getActiveMonitorsCount(Reg') = 0
             /\ DOMAIN monitorPaths' = {} /\ DOMAIN monitorOptions' = {}
             /\ DOMAIN monitorStartTimes' = {} /\ DOMAIN monitorMethods' = {}
             /\ \A id \in DOMAIN monitorPromises :
                   \A t \in timers' : t.ctrl # monitorPromises[id]
       /\ (pageClosed /\ getActiveMonitorsCount(Reg) = 0 /\ regCount' = regCount) =>
             getActiveMonitorsCount(Reg') = 0
       /\ pageClosed =>
             \A c \in DOMAIN controllers :
                (c \notin RegisteredCtrls /\ Pending(controllers[c])) =>
                    ~(/\ controllers'[c].isRejected
                      /\ controllers'[c].value.err.cause = "regTimer") ]_vars

\* the page has closed after two monitors were registered under different
\* ids: the registry is empty, no registration timer is left and every
\* one-shot listener has finished
C39_Witness ==
    /\ pageClosed /\ regCount = 2 /\ evCount = 0 /\ waitCount = 0
    /\ DOMAIN capturedResponses = {"all", "a", "b"}
    /\ getActiveMonitorsCount(Reg) = 0
    /\ Len(controllers) = 2
    /\ timers = {}
    /\ \A i \in DOMAIN listeners : listeners[i].state = "done"


\* C40: a monitor registered with startMonitoringAll monitors all HTTP
\* traffic: a response observed while it is active is recorded in the
\* monitor's private log and settles a waitForResponse that is waiting on it
\* (which then returns success with that response).  Stated for a GET
\* response, which the global listener handles without reading a body.
C40_AllMonitorSeesTraffic ==
    [][\A id \in DOMAIN monitorPromises :
          (/\ ~Has(monitorPaths, id) /\ ~Has(monitorMethods, id)
           /\ Pending(controllers[monitorPromises[id]])
           /\ evCount' = evCount + 1 /\ handlers' = handlers) =>
              /\ Has(capturedResponses', id)
              /\ Len(capturedResponses'[id]) = Len(capturedResponses[id]) + 1
              /\ \A w \in Waiters :
                    (/\ waits[w].pc = "waiting" /\ waits[w].id = id
                     /\ waits[w].ctrl = monitorPromises[id]) =>
                        waits'[w].pc # "waiting" ]_vars

====
